---- MODULE Spec2Model ----
(***************************************************************************)
(* pi-timelaps: the three control-loop daemons (lux_exposured.py,          *)
(* awb_adjuster.py, lux_controller.py), the config file they rewrite, and  *)
(* the capture-process supervisor (tlctl.py / main2.py).                   *)
(*                                                                         *)
(* The three daemons are taken to run on one config path (lux_exposured    *)
(* and awb_adjuster take it with --config), so that they share the config  *)
(* file, its ".tmp" sibling and /tmp/tlcfg.lock.                           *)
(*                                                                         *)
(* Values are small naturals.  In a record, 0 stands for "key absent";     *)
(* for the boolean keys 1 is false and 2 is true.                          *)
(***************************************************************************)
EXTENDS Naturals, Integers, Sequences, FiniteSets, TLC

\* ------------------------------------------------------------------ bounds
MaxTime == 5
MaxProcs == 1

\* ------------------------------------------------------------- vocabulary
TunableKeys == {"shutter", "gain", "awb_gain_r", "awb_gain_b"}

CRITICAL_KEYS ==
    {"camera_id", "use_hdr", "resolution", "timelapse_folder", "raw_folder", "duration"}

Keys == TunableKeys \cup CRITICAL_KEYS \cup {"ae_enable", "awb_enable", "log_folder"}

EmptyRec == [k \in Keys |-> 0]

Mk(s, g, r, b, cam, dur, ae, awb, lf) ==
    [k \in Keys |->
        CASE k = "shutter" -> s
          [] k = "gain" -> g
          [] k = "awb_gain_r" -> r
          [] k = "awb_gain_b" -> b
          [] k = "camera_id" -> cam
          [] k = "duration" -> dur
          [] k = "ae_enable" -> ae
          [] k = "awb_enable" -> awb
          [] k = "log_folder" -> lf
          [] OTHER -> 1]

\* Preset files under presets_dir.  "dusk" has the critical keys of "day";
\* "night" changes camera_id and has no log_folder key.
PresetNames == {"day", "dusk", "night"}

PresetFile(name) ==
    CASE name = "day"   -> Mk(1, 1, 1, 1, 1, 1, 1, 1, 1)
      [] name = "dusk"  -> Mk(2, 1, 2, 1, 1, 1, 1, 1, 1)
      [] name = "night" -> Mk(2, 2, 2, 2, 2, 1, 1, 1, 0)

\* Contents of the config file when the daemons start.
InitCfgRec == Mk(3, 1, 3, 1, 1, 1, 1, 1, 1)
InitCfgs == {InitCfgRec}

\* A file's content: a complete JSON document of one writer ("full"), a file
\* just truncated by open(..., "w") ("empty"), or bytes of two writers
\* ("mixed").  NoFile: the path does not exist.
Full(rec) == [st |-> "full", rec |-> rec]
EmptyFile == [st |-> "empty", rec |-> EmptyRec]
MixedFile == [st |-> "mixed", rec |-> EmptyRec]
NoFile == [st |-> "nofile", rec |-> EmptyRec]

Writers == {"E", "A", "P"}

\* Lux levels; NoLux: the sensor log gives no average (read_lux_avg -> None).
NoLux == 0
LuxMax == 4
LuxVals == 1..LuxMax

VARIABLES
    \* file system
    cfgC,       \* content of the config file
    tmpC,       \* content of <config>.tmp, or NoFile
    fd,         \* per writer: where the inode of its open temp file is now
    lock,       \* holder of flock(/tmp/tlcfg.lock): "none", "E" or "A"
    \* exposure controller (lux_exposured.py main)
    pcE, eUpd, eNew, ctlE,
    astro_active, astro_written, below_threshold_since, above_threshold_since,
    ema_et,     \* smoothed exposure time (compute_targets' running average)
    eRuns,      \* history: clock reading of the first tick of the current run of
                \* ticks with lux at or below enter / at or above exit (0: none);
                \* seeded: compute_targets has run since the start
    calc,       \* a normal-mode tick's numbers: what it read, what it proposes
    eBase,      \* history: the config file as it was when the exposure
                \* controller last entered its locked section
    \* color controller (awb_adjuster.py)
    pcA, aUpd, aNew,
    awbCalc,    \* the numbers of one compute_target_gain call
    ctlA,       \* awb_adjuster's settings: use_lux_gate, require_awb_disabled
    \* preset switcher (lux_controller.py controller_loop)
    pcP, current_preset, last_switch, pPreset, pForced, pNow, pOld, pData,
    pStop,
    \* control file lux_control.json and the presets directory
    luxctl, presetsOk,
    \* how the daemons were launched and what signals reached them
    launch,     \* --once of lux_controller.py; whether the tlctl command can be run
    stop_flag,  \* stop_flag["stop"] of awb_adjuster ("A") and lux_controller ("P")
    \* supervisor (tlctl.py) and capture processes (main2.py)
    pidfile,    \* per log folder, the pid in timelapse.pid (0: no file)
    procs,      \* per pid: state and the pid file path it was started with
    \* environment
    now,        \* the clock (time.time / time.monotonic), in whole seconds
    lux,        \* trailing-average lux of the sensor log; NoLux: no data
    \* history
    pCmds,      \* supervisor commands the switcher issued in its current tick
    prevRestarted, \* whether the switcher's latest apply commanded a restart
    wFailed     \* controllers whose write section failed in their current tick

fsVars == <<cfgC, tmpC, fd, lock>>
eVars == <<pcE, eUpd, eNew, ctlE, astro_active, astro_written,
           below_threshold_since, above_threshold_since, ema_et, eRuns, calc, eBase>>
aVars == <<pcA, aUpd, aNew, awbCalc>>
pVars == <<pcP, current_preset, last_switch, pPreset, pForced, pNow, pOld, pData,
           pStop>>
ctlVars == <<luxctl, presetsOk, ctlA, launch, stop_flag>>
supVars == <<pidfile, procs>>
envVars == <<now, lux>>
pHist == <<pCmds, prevRestarted, wFailed>>

\* ------------------------------------------------------------- file layer
\* open(tmp, "w"): creates the temp file or truncates the existing one.  A
\* writer that still has the same path open shares the inode.
OpenTmp(w) ==
    /\ tmpC' = EmptyFile
    /\ fd' = [fd EXCEPT ![w] = "tmp"]

\* What a buffered write of rec from offset 0, flushed at close, leaves in an
\* inode: the writer's document if the inode was empty; over bytes another
\* writer put there in between, the writer's document or (when it is the
\* shorter one) a mix of both.
WriteOutcomes(c, rec) ==
    IF c.st = "empty" THEN {Full(rec)} ELSE {Full(rec), MixedFile}

\* The rename of tmp over the config file: the inode at tmp becomes the
\* config file, the old config inode loses its name.
MovedFd ==
    [w \in Writers |->
        CASE fd[w] = "tmp" -> "cfg"
          [] fd[w] = "cfg" -> "unlinked"
          [] OTHER -> fd[w]]

\* lux_exposured.load_json: {} on any failure.
LoadE(c) == IF c.st = "full" THEN c.rec ELSE EmptyRec

\* awb_adjuster.load_json raises on a file that is not valid JSON.
LoadableA(c) == c.st = "full"

\* dict update with the keys a controller assigns; 0 in upd: key not assigned.
Overlay(rec, upd) ==
    [k \in Keys |-> IF k \in DOMAIN upd /\ upd[k] # 0 THEN upd[k] ELSE rec[k]]

SetKeys(upd) == {k \in DOMAIN upd : upd[k] # 0}

NoUpd == [k \in TunableKeys |-> 0]

\* The flush-and-close of writer w's temp file: the bytes go to the inode the
\* descriptor refers to, wherever a rename has moved it meanwhile.
WriteTmp(w, rec) ==
    /\ fd' = [fd EXCEPT ![w] = "closed"]
    /\ CASE fd[w] = "tmp" ->
              /\ \E out \in WriteOutcomes(tmpC, rec) : tmpC' = out
              /\ UNCHANGED cfgC
         [] fd[w] = "cfg" ->
              /\ \E out \in WriteOutcomes(cfgC, rec) : cfgC' = out
              /\ UNCHANGED tmpC
         [] OTHER -> UNCHANGED <<cfgC, tmpC>>

\* tmp.replace(path).  Fails (FileNotFoundError) when the temp file has been
\* renamed away by another writer.
RenameOk == tmpC.st # "nofile"

RenameTmp(w) ==
    IF RenameOk
    THEN /\ cfgC' = tmpC
         /\ tmpC' = NoFile
         /\ fd' = MovedFd
    ELSE UNCHANGED <<cfgC, tmpC, fd>>

\* ------------------------------------------- exposure controller (E)
\* astro_shutter_us / astro_gain of the control file, as model values
AstroShutter == 3
AstroGain == 3
\* shutter and gain values the normal-mode computation proposes
ShutterProps == {1}
GainProps == {2}
\* min_write_delta_shutter_us / min_write_delta_gain
MinWriteDelta == 1

Abs(x) == IF x < 0 THEN 0 - x ELSE x

\* a missing ae_enable taken as false
AeOn_m(rec) == rec["ae_enable"] = 2

\* bool(live_cfg.get("ae_enable", True))
AeOn(rec) == rec["ae_enable"] # 1

\* lines 186-193: the two hysteresis timers (0: None)
\* a timer that is not cleared when its condition stops holding
Since_m(cond, since) == IF since = 0 THEN (IF cond THEN now ELSE 0) ELSE since

Since(cond, since) == IF cond THEN (IF since = 0 THEN now ELSE since) ELSE 0

\* lines 195-202: astro state after this tick's two transitions
\* the hold-on duration dropped
EnterNow_m(active, below) ==
    ~active /\ below # 0

EnterNow(active, below) ==
    ~active /\ below # 0 /\ (now - below) >= ctlE.hold_on

ExitNow(active, above) ==
    active /\ above # 0 /\ (now - above) >= ctlE.hold_off

\* the minimum delta ignored
WriteFlag_m(prop, live) == live # 0

\* lines 253-254: a key is written when the proposal is at least the minimum
\* delta away from the live value (a missing live key counts as delta 0)
WriteFlag(prop, live) == live # 0 /\ Abs(prop - live) >= MinWriteDelta

\* loglog_interp_exposure: the table's exposure time falls as lux rises
TableEt(l) == (LuxMax + 1) - l

\* compute_targets, the running average with smoothing_et one half
EmaNext(l, ema_et_prev) ==
    IF ema_et_prev > 0 THEN (ema_et_prev + TableEt(l)) \div 2 ELSE TableEt(l)

\* ema_et = max(1.0, shutter * max(gain, 1.0)) at startup
EmaStart(rec) ==
    LET g == IF rec["gain"] > 1 THEN rec["gain"] ELSE 1
        e == rec["shutter"] * g
    IN  IF e > 1 THEN e ELSE 1

\* clamp(x, lo, hi)
clamp(x, lo, hi) == IF x < lo THEN lo ELSE IF x > hi THEN hi ELSE x

\* int() of a number given in hundredths: truncation toward zero
IntOfHundredths(x) == IF x >= 0 THEN x \div 100 ELSE 0 - ((0 - x) \div 100)

\* round(): to the nearest integer, a half to the even neighbour
RoundDiv(x, step) ==
    LET q == x \div step
        r == x % step
    IN  IF 2 * r < step THEN q
        ELSE IF 2 * r > step THEN q + 1
        ELSE IF q % 2 = 0 THEN q ELSE q + 1

\* quantize(x, step)
quantize(x, step) == IF step > 1 THEN RoundDiv(x, step) * step ELSE x

Min(a, b) == IF a < b THEN a ELSE b
Max(a, b) == IF a > b THEN a ELSE b

\* one second in the model's shutter unit (1_000_000 us in the source)
SecondUs == 10

\* max_by_interval = max(0.0, min_interval - raw_delay - overhead) * 1_000_000
MaxByInterval(min_interval, raw_delay, overhead) ==
    Max(0, min_interval - raw_delay - overhead) * SecondUs

\* lines 234-236: the step limiter for shutter; pct in hundredths
StepShutter(shutter, tgt_s, pct) ==
    IntOfHundredths(clamp(100 * tgt_s, shutter * (100 - pct), shutter * (100 + pct)))

\* lines 237-239: the step limiter for gain; the result in hundredths
StepGain(gain, tgt_g, pct) ==
    clamp(100 * tgt_g, gain * (100 - pct), gain * (100 + pct))

\* lines 245-248: the absolute clamp and the quantization of the shutter
FinalShutter(prop_s, c) ==
    LET v == clamp(prop_s, c.min_shutter_us,
                   Min(c.max_shutter_us,
                       MaxByInterval(c.min_interval, c.raw_delay, c.overhead)))
    IN  IF c.quantize_shutter_us > 0 /\ v >= c.quantize_min_us
        THEN quantize(v, c.quantize_shutter_us)
        ELSE v

\* line 249: the absolute clamp of the gain, in hundredths
FinalGain(prop_g, c) ==
    clamp(prop_g, 100 * c.min_gain, 100 * Min(c.max_gain, c.max_gain_by_camera))

\* no normal-mode numbers kept
NoCalc == [done |-> FALSE]

\* what a normal-mode tick can meet: live values, targets of compute_targets
\* and the control file's limits
CalcInputs ==
    [done : {FALSE},
     shutter : {1, 3, 10}, gain : {1, 4},
     tgt_s : {1, 5, 12}, tgt_g : {1, 6},
     max_step_shutter_pct : {25, 50}, max_step_gain_pct : {25},
     min_shutter_us : {2}, max_shutter_us : {12},
     min_interval : {1, 2, 3}, raw_delay : {0}, overhead : {1},
     quantize_shutter_us : {0, 5}, quantize_min_us : {4},
     min_gain : {1}, max_gain : {5}, max_gain_by_camera : {3, 5},
     min_write_delta_shutter_us : {1, 3}, min_write_delta_gain : {1},
     step_s : {0}, step_g : {0}, prop_s : {0}, prop_g : {0},
     write_s : {FALSE}, write_g : {FALSE}]

\* lines 234-254 of a normal-mode tick, from the values it read to the write
\* flags
E_Compute ==
    /\ calc # NoCalc /\ ~calc.done
    /\ LET step_s == StepShutter(calc.shutter, calc.tgt_s, calc.max_step_shutter_pct)
           step_g == StepGain(calc.gain, calc.tgt_g, calc.max_step_gain_pct)
           prop_s == FinalShutter(step_s, calc)
           prop_g == FinalGain(step_g, calc)
       IN  calc' = [calc EXCEPT
                      !.done = TRUE, !.step_s = step_s, !.step_g = step_g,
                      !.prop_s = prop_s, !.prop_g = prop_g,
                      !.write_s = Abs(prop_s - calc.shutter) >= calc.min_write_delta_shutter_us,
                      !.write_g = Abs(prop_g - 100 * calc.gain)
                                     >= 100 * calc.min_write_delta_gain]
    /\ UNCHANGED <<pcE, eUpd, eNew, eBase, ctlE, astro_active, astro_written,
                   below_threshold_since, above_threshold_since, ema_et, eRuns,
                   fsVars, aVars, pVars, ctlVars, supVars, pHist, envVars>>

\* compute_targets with smoothing_et = 0 (ema_et is the table's exposure time
\* et at once): the clamped shutter target, quantized like a proposal, and the
\* gain that makes up the rest of et, in thousandths
TargetShutter(et, c) ==
    LET v == clamp(et, c.min_shutter_us,
                   Min(c.max_shutter_us,
                       MaxByInterval(c.min_interval, c.raw_delay, c.overhead)))
    IN  IF c.quantize_shutter_us > 0 /\ v >= c.quantize_min_us
        THEN quantize(v, c.quantize_shutter_us)
        ELSE v

TargetGain(et, c) ==
    LET v == clamp(et, c.min_shutter_us,
                   Min(c.max_shutter_us,
                       MaxByInterval(c.min_interval, c.raw_delay, c.overhead)))
    IN  clamp((1000 * et) \div Max(v, 1), c.min_gain, Min(c.max_gain, c.max_gain_by_camera))

\* live values, the table's exposure time for the lux that stays, and control
\* files; gains and gain limits in thousandths (round(prop_g, 3) is what a
\* write stores)
LoopInputs ==
    [done : {FALSE},
     shutter : {2, 4, 8, 16}, gain : {1000, 2000, 4000},
     et : {4, 16, 32},
     max_step_shutter_pct : {25, 50}, max_step_gain_pct : {25},
     min_shutter_us : {2}, max_shutter_us : {16},
     min_interval : {3}, raw_delay : {0}, overhead : {1},
     quantize_shutter_us : {0, 4}, quantize_min_us : {8},
     min_gain : {1000}, max_gain : {4000}, max_gain_by_camera : {4000},
     min_write_delta_shutter_us : {1, 2}, min_write_delta_gain : {50, 300},
     tgt_s : {0}, tgt_g : {0},
     step_s : {0}, step_g : {0}, prop_s : {0}, prop_g : {0},
     write_s : {FALSE}, write_g : {FALSE}]

\* lines 229-264 of a normal-mode tick with auto-exposure off, the save
\* included: the next tick reads what this one wrote
E_Adjust ==
    /\ calc # NoCalc
    /\ LET tgt_s == TargetShutter(calc.et, calc)
           tgt_g == TargetGain(calc.et, calc)
           step_s == StepShutter(calc.shutter, tgt_s, calc.max_step_shutter_pct)
           step_g == StepGain(calc.gain, tgt_g, calc.max_step_gain_pct)
           prop_s == FinalShutter(step_s, calc)
           prop_g == FinalGain(step_g, calc)
           write_s == Abs(prop_s - calc.shutter) >= calc.min_write_delta_shutter_us
           write_g == Abs(prop_g - 100 * calc.gain) >= 100 * calc.min_write_delta_gain
       IN  calc' = [calc EXCEPT
                      !.done = TRUE, !.tgt_s = tgt_s, !.tgt_g = tgt_g,
                      !.step_s = step_s, !.step_g = step_g,
                      !.prop_s = prop_s, !.prop_g = prop_g,
                      !.write_s = write_s, !.write_g = write_g,
                      !.shutter = IF write_s THEN prop_s ELSE calc.shutter,
                      !.gain = IF write_g THEN RoundDiv(prop_g, 100) ELSE calc.gain]
    /\ UNCHANGED <<pcE, eUpd, eNew, eBase, ctlE, astro_active, astro_written,
                   below_threshold_since, above_threshold_since, ema_et, eRuns,
                   fsVars, aVars, pVars, ctlVars, supVars, pHist, envVars>>

\* loglog_interp_exposure in the log domain.  An anchor is [l, t]: lux 2^l and
\* exposure time 2^t.  A lux argument is given as twice its logarithm, so that
\* points half way between anchors can be asked for; NonPositive stands for a
\* lux <= 0, which the function replaces by 1e-6.  A result is the logarithm of
\* the exposure time times LogScale, in steps of one rounding error of
\* math.log / math.exp: the early returns give float(et_us) exactly, the
\* interpolation exp(tlo + u * (thi - tlo)) is exact up to the rounding of the
\* platform's libm.
NonPositive == 0 - 40
LogScale == 12000
Ulp == {0 - 1, 0, 1}

\* sorted(table, key=lux, reverse=True): the anchor with the greatest lux
\* first (a stable selection sort)
RECURSIVE sorted(_)
sorted(table) ==
    IF Len(table) <= 1 THEN table
    ELSE LET top == CHOOSE i \in 1..Len(table) :
                       /\ \A j \in 1..Len(table) : table[j].l <= table[i].l
                       /\ \A j \in 1..(i - 1) : table[j].l < table[i].l
             rest == [j \in 1..(Len(table) - 1) |->
                         IF j < top THEN table[j] ELSE table[j + 1]]
         IN  <<table[top]>> \o sorted(rest)

\* an interpolation that starts from the upper anchor's exposure time
Between_m(lo, hi, lux2) ==
    (LogScale * hi.t)
       + ((lux2 - 2 * lo.l) * (hi.t - lo.t) * (LogScale \div 2)) \div (hi.l - lo.l)

\* tlo + u * (thi - tlo) with u = (lx - llo) / (lhi - llo)
Between(lo, hi, lux2) ==
    (LogScale * lo.t)
       + ((lux2 - 2 * lo.l) * (hi.t - lo.t) * (LogScale \div 2)) \div (hi.l - lo.l)

\* the results loglog_interp_exposure can return for a table and a lux
loglog_interp_exposure(lux2, table) ==
    LET t == sorted(table)
        n == Len(t)
        segs == {i \in 1..(n - 1) : 2 * t[i + 1].l <= lux2 /\ lux2 <= 2 * t[i].l}
    IN  IF lux2 >= 2 * t[1].l THEN {LogScale * t[1].t}
        ELSE IF lux2 <= 2 * t[n].l THEN {LogScale * t[n].t}
        ELSE IF segs = {} THEN {LogScale * t[n].t}
        ELSE LET i == CHOOSE k \in segs : \A j \in segs : k <= j
             IN  {Between(t[i + 1], t[i], lux2) + e : e \in Ulp}

\* anchor tables ordered by descending lux with non-decreasing exposure times
InterpTables ==
    { << [l |-> 4, t |-> 1], [l |-> 2, t |-> 3], [l |-> 1, t |-> 4] >>,
      << [l |-> 4, t |-> 2], [l |-> 3, t |-> 2], [l |-> 0, t |-> 5] >>,
      << [l |-> 3, t |-> 1], [l |-> 1, t |-> 3] >> }

InterpInputs ==
    [done : {FALSE}, table : InterpTables,
     lux1 : {NonPositive} \cup 0..10, lux2 : {NonPositive} \cup 0..10,
     et1 : {0}, et2 : {0}]

\* two calls of loglog_interp_exposure on one table
E_Interp ==
    /\ calc # NoCalc /\ ~calc.done
    /\ \E r1 \in loglog_interp_exposure(calc.lux1, calc.table),
          r2 \in loglog_interp_exposure(calc.lux2, calc.table) :
          /\ calc.lux1 = calc.lux2 => r1 = r2
          /\ calc' = [calc EXCEPT !.done = TRUE, !.et1 = r1, !.et2 = r2]
    /\ UNCHANGED <<pcE, eUpd, eNew, eBase, ctlE, astro_active, astro_written,
                   below_threshold_since, above_threshold_since, ema_et, eRuns,
                   fsVars, aVars, pVars, ctlVars, supVars, pHist, envVars>>

\* One tick up to the point where it sleeps or asks for the lock.
\* JSON null in a numeric field of the config: what the dashboard's
\* convert_value stores for an empty or non-numeric entry
NullVal == 9

\* int(live_cfg.get("shutter", shutter)) and float(live_cfg.get("gain", gain))
\* raise TypeError on a null; the loop has no handler, so main ends
Raises(live) == live["shutter"] = NullVal \/ live["gain"] = NullVal

E_Tick ==
    /\ pcE = "idle"
    /\ UNCHANGED <<fsVars, eNew, eBase, ctlE, aVars, pVars, ctlVars, supVars, pHist,
                   envVars>>
    /\ IF lux = NoLux
       THEN /\ pcE' = "sleep"
            /\ UNCHANGED <<eUpd, astro_active, astro_written,
                           below_threshold_since, above_threshold_since, ema_et, eRuns, calc>>
       ELSE IF Raises(LoadE(cfgC))
       THEN /\ pcE' = "dead"
            /\ UNCHANGED <<eUpd, astro_active, astro_written,
                           below_threshold_since, above_threshold_since, ema_et, eRuns, calc>>
       ELSE LET live == LoadE(cfgC)
                below == Since(lux <= ctlE.enter, below_threshold_since)
                above == Since(lux >= ctlE.exit, above_threshold_since)
                act1 == astro_active \/ EnterNow(astro_active, below)
                leave == ExitNow(act1, above)
                act2 == act1 /\ ~leave
                written == IF leave THEN FALSE ELSE astro_written
            IN  /\ UNCHANGED calc
                /\ eRuns' = [below |-> IF lux > ctlE.enter THEN 0
                                        ELSE IF eRuns.below = 0 THEN now
                                        ELSE eRuns.below,
                              above |-> IF lux < ctlE.exit THEN 0
                                        ELSE IF eRuns.above = 0 THEN now
                                        ELSE eRuns.above,
                              seeded |-> eRuns.seeded \/ ~act2]
                /\ below_threshold_since' = below
                /\ above_threshold_since' = above
                /\ astro_active' = act2
                /\ astro_written' = written
                /\ ema_et' = IF act2 THEN ema_et ELSE EmaNext(lux, ema_et)
                /\ IF act2
                   THEN IF ~written
                        THEN /\ pcE' = "lock"
                             /\ eUpd' = [NoUpd EXCEPT !["shutter"] = AstroShutter,
                                                      !["gain"] = AstroGain]
                        ELSE pcE' = "sleep" /\ UNCHANGED eUpd
                   ELSE IF ctlE.ae_only /\ AeOn(live)
                        THEN pcE' = "sleep" /\ UNCHANGED eUpd
                        ELSE \E ps \in ShutterProps, pg \in GainProps :
                               LET ws == WriteFlag(ps, live["shutter"])
                                   wg == WriteFlag(pg, live["gain"])
                               IN  IF ws \/ wg
                                   THEN /\ pcE' = "lock"
                                        /\ eUpd' = [NoUpd EXCEPT
                                               !["shutter"] = IF ws THEN ps ELSE 0,
                                               !["gain"] = IF wg THEN pg ELSE 0]
                                   ELSE pcE' = "sleep" /\ UNCHANGED eUpd

\* a lock that is granted whoever holds it
E_Lock_m ==
    /\ pcE = "lock"
    /\ lock' = "E"
    /\ eBase' = cfgC
    /\ pcE' = "load"
    /\ UNCHANGED <<cfgC, tmpC, fd, eUpd, eNew, ctlE, astro_active, astro_written,
                   below_threshold_since, above_threshold_since, ema_et, eRuns, calc,
                   aVars, pVars, ctlVars, supVars, pHist, envVars>>

\* with cfg_lock(): flock(fd, LOCK_EX) is granted
E_Lock ==
    /\ pcE = "lock"
    /\ lock = "none"
    /\ lock' = "E"
    /\ eBase' = cfgC
    /\ pcE' = "load"
    /\ UNCHANGED <<cfgC, tmpC, fd, eUpd, eNew, ctlE, astro_active, astro_written,
                   below_threshold_since, above_threshold_since, ema_et, eRuns, calc,
                   aVars, pVars, ctlVars, supVars, pHist, envVars>>

\* new_cfg = load_json(cfg_path); new_cfg["shutter"] = ...; new_cfg["gain"] = ...
E_Load ==
    /\ pcE = "load"
    /\ eNew' = Overlay(LoadE(cfgC), eUpd)
    /\ pcE' = "open"
    /\ UNCHANGED <<fsVars, eUpd, ctlE, astro_active, astro_written,
                   below_threshold_since, above_threshold_since, ema_et, eRuns, calc, eBase,
                   aVars, pVars, ctlVars, supVars, pHist, envVars>>

E_Open ==
    /\ pcE = "open"
    /\ OpenTmp("E")
    /\ pcE' = "write"
    /\ UNCHANGED <<cfgC, lock, eUpd, eNew, ctlE, astro_active, astro_written,
                   below_threshold_since, above_threshold_since, ema_et, eRuns, calc, eBase,
                   aVars, pVars, ctlVars, supVars, pHist, envVars>>

E_Write ==
    /\ pcE = "write"
    /\ WriteTmp("E", eNew)
    /\ pcE' = "rename"
    /\ UNCHANGED <<lock, eUpd, eNew, ctlE, astro_active, astro_written,
                   below_threshold_since, above_threshold_since, ema_et, eRuns, calc, eBase,
                   aVars, pVars, ctlVars, supVars, pHist, envVars>>

\* a save that never sets the write-once flag
E_Rename_m ==
    /\ pcE = "rename"
    /\ RenameTmp("E")
    /\ lock' = "none"
    /\ pcE' = "sleep"
    /\ eUpd' = NoUpd
    /\ eNew' = EmptyRec
    /\ wFailed' = IF RenameOk THEN wFailed ELSE wFailed \cup {"E"}
    /\ eBase' = NoFile
    /\ UNCHANGED <<ctlE, astro_active, astro_written,
                   below_threshold_since, above_threshold_since, ema_et, eRuns, calc,
                   aVars, pVars, ctlVars, supVars, pCmds, prevRestarted, envVars>>

\* tmp.replace(path), the astro write-once flag, and the end of the with block
E_Rename ==
    /\ pcE = "rename"
    /\ RenameTmp("E")
    /\ astro_written' = IF astro_active /\ RenameOk THEN TRUE ELSE astro_written
    /\ lock' = "none"
    /\ pcE' = "sleep"
    /\ eUpd' = NoUpd
    /\ eNew' = EmptyRec
    /\ wFailed' = IF RenameOk THEN wFailed ELSE wFailed \cup {"E"}
    /\ eBase' = NoFile
    /\ UNCHANGED <<ctlE, astro_active,
                   below_threshold_since, above_threshold_since, ema_et, eRuns, calc,
                   aVars, pVars, ctlVars, supVars, pCmds, prevRestarted, envVars>>

\* time.sleep(interval_s), then the loop's top
E_Sleep ==
    /\ pcE = "sleep"
    /\ pcE' = "idle"
    /\ wFailed' = wFailed \ {"E"}
    /\ UNCHANGED <<eUpd, eNew, ctlE, astro_active, astro_written,
                   below_threshold_since, above_threshold_since, ema_et, eRuns, calc, eBase,
                   fsVars, aVars, pVars, ctlVars, supVars, pCmds, prevRestarted, envVars>>

\* ---------------------------------------------- color controller (A)
\* night_max_lux, as a lux level
NightMaxLux == 2
\* require_awb_disabled and use_lux_gate of DEFAULTS
AwbDefaults == [use_lux_gate |-> TRUE, require_awb_disabled |-> TRUE]
\* no compute_target_gain numbers kept
NoAwbCalc == [done |-> FALSE]
\* gains compute_target_gain can return for the two channels
AwbProps == {2}
\* the epsilon of the moved test (1e-3 in the source), in gain units
AwbEps == 1

\* the night gate passes on every reading
LuxGate_m(l) == l # NoLux

\* not (avg is None or avg > night_max_lux)
LuxGate(l) == l # NoLux /\ l <= NightMaxLux

\* not live_cfg.get("awb_enable", True)
AwbOff(rec) == rec["awb_enable"] = 1

\* a write only when both gains moved
Moved_m(new_r, new_b, current_r, current_b) ==
    Abs(new_r - current_r) >= AwbEps /\ Abs(new_b - current_b) >= AwbEps

\* line 191, negated: at least one gain moved by the epsilon
Moved(new_r, new_b, current_r, current_b) ==
    ~(Abs(new_r - current_r) < AwbEps /\ Abs(new_b - current_b) < AwbEps)

\* float(live_cfg.get(key, 1.0))
CurrentGain(rec, k) == IF rec[k] = 0 THEN 1 ELSE rec[k]

\* compute_target_gain on fixed-point numbers: gains in hundredths, ratio,
\* deadband, k_p and alpha in hundredths, step_max in ten-thousandths; the
\* result in units of 1e-8
compute_target_gain(current_gain, ratio, deadband, k_p, step_max, alpha, gmin, gmax) ==
    LET err == 100 - ratio
    IN  IF Abs(err) <= deadband
        THEN current_gain * 1000000
        ELSE LET rel == clamp(k_p * err, 0 - step_max, step_max)
                 target == current_gain * (1000000 + alpha * rel)
             IN  clamp(target, gmin * 1000000, gmax * 1000000)

\* live gains, color ratios and settings one adjust_once call can meet
AwbInputs ==
    [done : {FALSE},
     current_r : {40, 100, 300, 900}, current_b : {40, 100, 900},
     ratio_r : {50, 98, 100, 150}, ratio_b : {50, 98, 150},
     deadband : {3}, k_p : {50}, step_max : {500}, smoothing_alpha : {30},
     gain_min : {50}, gain_max : {800}, eps : {100000},
     new_r : {0}, new_b : {0}, written : {FALSE}]

\* lines 177-199 of adjust_once: the two gains and whether they are written
A_Compute ==
    /\ awbCalc # NoAwbCalc /\ ~awbCalc.done
    /\ LET c == awbCalc
           new_r == compute_target_gain(c.current_r, c.ratio_r, c.deadband, c.k_p,
                        c.step_max, c.smoothing_alpha, c.gain_min, c.gain_max)
           new_b == compute_target_gain(c.current_b, c.ratio_b, c.deadband, c.k_p,
                        c.step_max, c.smoothing_alpha, c.gain_min, c.gain_max)
       IN  awbCalc' = [c EXCEPT
              !.done = TRUE, !.new_r = new_r, !.new_b = new_b,
              !.written = ~(Abs(new_r - c.current_r * 1000000) < c.eps
                            /\ Abs(new_b - c.current_b * 1000000) < c.eps)]
    /\ UNCHANGED <<pcA, aUpd, aNew, fsVars, eVars, pVars, ctlVars, supVars, pHist,
                   envVars>>

\* adjust_once returns False (or raises, which main catches); main sleeps
A_Skip ==
    /\ pcA' = "sleep"
    /\ UNCHANGED aUpd

\* adjust_once up to the point where it returns or asks for the lock.  A
\* config file that is not valid JSON makes load_json raise; main catches.
\* read_last_rgb may find no usable sample.
A_Tick ==
    /\ pcA = "idle"
    /\ UNCHANGED <<fsVars, aNew, awbCalc, eVars, pVars, ctlVars, supVars, pHist, envVars>>
    /\ IF ctlA.use_lux_gate /\ ~LuxGate(lux) THEN A_Skip
       ELSE IF ~LoadableA(cfgC) THEN A_Skip
       ELSE IF ctlA.require_awb_disabled /\ ~AwbOff(cfgC.rec) THEN A_Skip
       ELSE LET current_r == CurrentGain(cfgC.rec, "awb_gain_r")
                current_b == CurrentGain(cfgC.rec, "awb_gain_b")
            IN  \/ A_Skip
                \/ \E new_r \in AwbProps \cup {current_r},
                      new_b \in AwbProps \cup {current_b} :
                      /\ aUpd' = [NoUpd EXCEPT !["awb_gain_r"] = new_r,
                                               !["awb_gain_b"] = new_b]
                      /\ pcA' = IF Moved(new_r, new_b, current_r, current_b)
                                THEN "lock" ELSE "sleep"

\* a failing load that leaves the block with the lock still held
A_Lock_m ==
    /\ pcA = "lock"
    /\ lock = "none"
    /\ UNCHANGED <<cfgC, tmpC, fd, awbCalc, eVars, pVars, ctlVars, supVars, pCmds,
                   prevRestarted, envVars>>
    /\ lock' = "A"
    /\ IF LoadableA(cfgC)
       THEN /\ aNew' = Overlay(cfgC.rec, aUpd)
            /\ pcA' = "open"
            /\ UNCHANGED <<aUpd, wFailed>>
       ELSE /\ pcA' = "sleep"
            /\ aUpd' = NoUpd
            /\ wFailed' = wFailed \cup {"A"}
            /\ UNCHANGED aNew

\* with cfg_lock(): latest = load_json(...); a failing load leaves the block
A_Lock ==
    /\ pcA = "lock"
    /\ lock = "none"
    /\ UNCHANGED <<cfgC, tmpC, fd, awbCalc, eVars, pVars, ctlVars, supVars, pCmds,
                   prevRestarted, envVars>>
    /\ IF LoadableA(cfgC)
       THEN /\ lock' = "A"
            /\ aNew' = Overlay(cfgC.rec, aUpd)
            /\ pcA' = "open"
            /\ UNCHANGED <<aUpd, wFailed>>
       ELSE /\ pcA' = "sleep"
            /\ aUpd' = NoUpd
            /\ wFailed' = wFailed \cup {"A"}
            /\ UNCHANGED <<lock, aNew>>

A_Open ==
    /\ pcA = "open"
    /\ OpenTmp("A")
    /\ pcA' = "write"
    /\ UNCHANGED <<cfgC, lock, aUpd, aNew, awbCalc, eVars, pVars, ctlVars, supVars,
                   pHist, envVars>>

A_Write ==
    /\ pcA = "write"
    /\ WriteTmp("A", aNew)
    /\ pcA' = "rename"
    /\ UNCHANGED <<lock, aUpd, aNew, awbCalc, eVars, pVars, ctlVars, supVars, pHist,
                   envVars>>

\* a save whose failure leaves the block without unlocking
A_Rename_m ==
    /\ pcA = "rename"
    /\ RenameTmp("A")
    /\ lock' = IF RenameOk THEN "none" ELSE lock
    /\ pcA' = "sleep"
    /\ aUpd' = NoUpd
    /\ aNew' = EmptyRec
    /\ wFailed' = IF RenameOk THEN wFailed ELSE wFailed \cup {"A"}
    /\ UNCHANGED <<awbCalc, eVars, pVars, ctlVars, supVars, pCmds, prevRestarted,
                   envVars>>

\* tmp.replace(path); when it raises, the exception leaves the with block
\* through cfg_lock's finally and main catches it
A_Rename ==
    /\ pcA = "rename"
    /\ RenameTmp("A")
    /\ lock' = "none"
    /\ pcA' = "sleep"
    /\ aUpd' = NoUpd
    /\ aNew' = EmptyRec
    /\ wFailed' = IF RenameOk THEN wFailed ELSE wFailed \cup {"A"}
    /\ UNCHANGED <<awbCalc, eVars, pVars, ctlVars, supVars, pCmds, prevRestarted,
                   envVars>>

\* time.sleep(cfg["interval_s"]), then the loop's top: while not
\* stop_flag["stop"]
A_Sleep ==
    /\ pcA = "sleep"
    /\ pcA' = IF stop_flag["A"] THEN "exited" ELSE "idle"
    /\ aUpd' = NoUpd
    /\ wFailed' = wFailed \ {"A"}
    /\ UNCHANGED <<aNew, awbCalc, fsVars, eVars, pVars, ctlVars, supVars, pCmds,
                   prevRestarted, envVars>>

\* ------------------------------------------------- supervisor (tlctl.py)
Folders == 0..1
Pids == 1..MaxProcs
NoProc == [st |-> "free", pf |-> 0]
NoStop == [pid |-> 0, f |-> 0]

\* read_config: {} when the config cannot be read; cfg.get("log_folder",
\* "./logs") names the folder of timelapse.pid (folder 0: the default)
pidfile_from_config == LoadE(cfgC)["log_folder"]

\* read_pid + is_running
is_running(pid) == pid # 0 /\ procs[pid].st # "free"

\* status that trusts the pid file without probing the process
do_status_m == IF pidfile[pidfile_from_config] # 0 THEN 0 ELSE 1

do_status == IF is_running(pidfile[pidfile_from_config]) THEN 0 ELSE 1

\* pids the system can hand to a new process
FreeSlots ==
    {p \in DOMAIN procs : procs[p].st = "free" /\ \A f \in Folders : pidfile[f] # p}

\* do_start: nothing when the pid file names a live process; otherwise drop a
\* stale pid file and spawn main2.py with --pidfile (spawned: Popen worked)
do_start(spawned) ==
    LET f == pidfile_from_config
        pid == pidfile[f]
    IN  IF is_running(pid)
        THEN UNCHANGED <<pidfile, procs>>
        ELSE /\ pidfile' = [pidfile EXCEPT ![f] = 0]
             /\ IF spawned /\ FreeSlots # {}
                THEN LET s == CHOOSE p \in FreeSlots : \A q \in FreeSlots : p <= q
                     IN  procs' = [procs EXCEPT ![s] = [st |-> "starting", pf |-> f]]
                ELSE UNCHANGED procs

\* the dashboard's session button: tlctl start
Tl_Start ==
    /\ \E spawned \in BOOLEAN : do_start(spawned)
    /\ UNCHANGED <<fsVars, eVars, aVars, pVars, ctlVars, pHist, envVars>>

\* the dashboard's session button: tlctl stop.  do_stop: nothing without a pid
\* file; a stale pid file is unlinked; a live process gets SIGTERM (SIGKILL
\* after the wait) and the pid file is unlinked
Tl_Stop ==
    /\ LET f == pidfile_from_config
           pid == pidfile[f]
       IN  /\ pidfile' = [pidfile EXCEPT ![f] = 0]
           /\ procs' = IF is_running(pid) THEN [procs EXCEPT ![pid] = NoProc] ELSE procs
    /\ UNCHANGED <<fsVars, eVars, aVars, pVars, ctlVars, pHist, envVars>>

\* main2.py write_pidfile, after the camera has started
ProcWritePid(p) ==
    /\ procs[p].st = "starting"
    /\ procs' = [procs EXCEPT ![p].st = "running"]
    /\ pidfile' = [pidfile EXCEPT ![procs[p].pf] = p]
    /\ UNCHANGED <<fsVars, eVars, aVars, pVars, ctlVars, pHist, envVars>>

\* main2.py leaves its loop (stop signal or duration over): remove_pidfile
ProcExit(p) ==
    /\ procs[p].st = "running"
    /\ procs' = [procs EXCEPT ![p] = NoProc]
    /\ pidfile' = [pidfile EXCEPT ![procs[p].pf] = 0]
    /\ UNCHANGED <<fsVars, eVars, aVars, pVars, ctlVars, pHist, envVars>>

\* main2.py dies without its finally block (camera busy at start, killed)
ProcDie(p) ==
    /\ procs[p].st # "free"
    /\ procs' = [procs EXCEPT ![p] = NoProc]
    /\ UNCHANGED <<pidfile, fsVars, eVars, aVars, pVars, ctlVars, pHist, envVars>>

\* ----------------------------------------------- preset switcher (P)
FirstSwitchOffset == 99999

\* the mappings array of lux_control.json: overlapping at lux 1, none for 4
Mappings ==
    << [min_lux |-> 1, max_lux |-> 1, preset |-> "night"],
       [min_lux |-> 1, max_lux |-> 2, preset |-> "dusk"],
       [min_lux |-> 3, max_lux |-> 3, preset |-> "day"] >>

RECURSIVE choose_from(_, _, _)
choose_from(avg_lux, mappings, i) ==
    IF i > Len(mappings) THEN ""
    ELSE IF mappings[i].min_lux <= avg_lux /\ avg_lux <= mappings[i].max_lux
         THEN mappings[i].preset
         ELSE choose_from(avg_lux, mappings, i + 1)

\* a resolution that never looks at the first rule
choose_preset_m(avg_lux, mappings) == choose_from(avg_lux, mappings, 2)

\* "" stands for None
choose_preset(avg_lux, mappings) == choose_from(avg_lux, mappings, 1)

\* load_json(CONFIG_FILE) or {}
LoadP(c) == IF c.st = "full" THEN c.rec ELSE EmptyRec

\* camera_id left out of the comparison
needs_restart_m(old_cfg, new_cfg) ==
    \E k \in CRITICAL_KEYS \ {"camera_id"} : old_cfg[k] # new_cfg[k]

needs_restart(old_cfg, new_cfg) == \E k \in CRITICAL_KEYS : old_cfg[k] # new_cfg[k]

\* the cooldown test dropped
CooldownOver_m(t, last, cooldown) == TRUE

CooldownOver(t, last, cooldown) == t - last >= cooldown

\* where a pass that got past the force branch ends: "if args.once: break"
\* sits at the bottom of the lux path only; the force branch sleeps and continues
PassEnd(forced) == IF launch.once /\ ~forced THEN "exited" ELSE "sleep"

\* the lux path ends without an apply
P_PassEnd ==
    /\ pcP' = PassEnd(FALSE)
    /\ UNCHANGED <<current_preset, last_switch, pPreset, pForced, pNow, pOld,
                   pData, pStop>>

\* the tick ends without an apply: time.sleep
P_Skip ==
    /\ pcP' = "sleep"
    /\ UNCHANGED <<current_preset, last_switch, pPreset, pForced, pNow, pOld,
                   pData, pStop>>

\* old = load_json(CONFIG_FILE) or {}; apply_preset_to_config up to save_json
P_Begin(preset, forced) ==
    /\ pPreset' = preset
    /\ pForced' = forced
    /\ pNow' = now
    /\ UNCHANGED <<current_preset, last_switch, pStop>>
    /\ IF preset \in presetsOk
       THEN /\ pOld' = LoadP(cfgC)
            /\ pData' = PresetFile(preset)
            /\ pcP' = "open"
       ELSE /\ pcP' = PassEnd(forced)
            /\ UNCHANGED <<pOld, pData>>

\* a switcher that takes every control file as enabled
Disabled_m(c) == FALSE

\* if not cfg.enabled
Disabled(c) == ~c.enabled

\* a pass that ignores force_preset
P_Tick_m ==
    /\ pcP = "idle"
    /\ UNCHANGED <<fsVars, eVars, aVars, ctlVars, supVars, envVars, pHist>>
    /\ IF Disabled(luxctl) THEN P_Skip
       ELSE IF lux = NoLux THEN P_Skip
       ELSE LET preset == choose_preset(lux, Mappings)
            IN  IF preset # "" /\ preset # current_preset
                THEN IF CooldownOver(now, last_switch, luxctl.cooldown_s)
                     THEN P_Begin(preset, FALSE)
                     ELSE P_Skip
                ELSE P_Skip

\* One pass of the loop up to the point where it sleeps, breaks or starts to
\* save.
P_Tick ==
    /\ pcP = "idle"
    /\ UNCHANGED <<fsVars, eVars, aVars, ctlVars, supVars, envVars, pHist>>
    /\ IF Disabled(luxctl) THEN P_Skip
       ELSE IF luxctl.force_preset # "" THEN P_Begin(luxctl.force_preset, TRUE)
       ELSE IF lux = NoLux THEN P_Skip
       ELSE LET preset == choose_preset(lux, Mappings)
            IN  IF preset # "" /\ preset # current_preset
                THEN IF CooldownOver(now, last_switch, luxctl.cooldown_s)
                     THEN P_Begin(preset, FALSE)
                     ELSE P_PassEnd
                ELSE P_PassEnd

P_Open ==
    /\ pcP = "open"
    /\ OpenTmp("P")
    /\ pcP' = "write"
    /\ UNCHANGED <<cfgC, lock, current_preset, last_switch, pPreset, pForced, pNow,
                   pOld, pData, pStop, eVars, aVars, ctlVars, supVars, envVars,
                   pHist>>

P_Write ==
    /\ pcP = "write"
    /\ WriteTmp("P", pData)
    /\ pcP' = "rename"
    /\ UNCHANGED <<lock, current_preset, last_switch, pPreset, pForced, pNow,
                   pOld, pData, pStop, eVars, aVars, ctlVars, supVars, envVars,
                   pHist>>

\* tmp.replace(path); save_json returns False when it raises
P_Rename ==
    /\ pcP = "rename"
    /\ RenameTmp("P")
    /\ pcP' = IF RenameOk THEN "decide" ELSE PassEnd(pForced)
    /\ pData' = EmptyRec
    /\ pOld' = IF RenameOk THEN pOld ELSE EmptyRec
    /\ UNCHANGED <<lock, current_preset, last_switch, pPreset, pForced, pNow,
                   pStop, eVars, aVars, ctlVars, supVars, envVars, pHist>>

\* current_preset = preset (and last_switch = now on the lux path)
P_Finish ==
    /\ current_preset' = pPreset
    /\ last_switch' = IF pForced THEN last_switch ELSE pNow
    /\ pcP' = PassEnd(pForced)

\* new = load_json(CONFIG_FILE) or {}; needs_restart(old, new) or not tl_status.
\* subprocess.run raises (FileNotFoundError, PermissionError) when the command
\* cannot be run; nothing in controller_loop or main catches it, main ends.
P_Decide ==
    /\ pcP = "decide"
    /\ UNCHANGED wFailed
    /\ LET new_cfg == LoadP(cfgC)
           crit == needs_restart(pOld, new_cfg)
           restart == crit \/ do_status # 0
       IN  IF ~crit /\ ~launch.tlctl
           THEN /\ pcP' = "dead"
                /\ UNCHANGED <<pCmds, prevRestarted, current_preset, last_switch>>
           ELSE /\ pCmds' = IF crit THEN pCmds ELSE Append(pCmds, "status")
                /\ prevRestarted' = restart
                /\ IF restart
                   THEN /\ pcP' = "stop"
                        /\ UNCHANGED <<current_preset, last_switch>>
                   ELSE P_Finish
    /\ pOld' = EmptyRec
    /\ UNCHANGED <<fsVars, pPreset, pForced, pNow, pData, pStop,
                   eVars, aVars, ctlVars, supVars, envVars>>

\* tl_restart, first half: tlctl stop up to its wait for the process to exit
P_Stop ==
    /\ pcP = "stop"
    /\ UNCHANGED wFailed
    /\ LET f == pidfile_from_config
           pid == pidfile[f]
       IN  IF ~launch.tlctl
           THEN /\ pcP' = "dead"
                /\ UNCHANGED <<pidfile, pStop, pCmds>>
           ELSE /\ pCmds' = Append(pCmds, "stop")
                /\ IF is_running(pid)
                   THEN /\ pStop' = [pid |-> pid, f |-> f]
                        /\ pcP' = "stopwait"
                        /\ UNCHANGED pidfile
                   ELSE /\ pidfile' = [pidfile EXCEPT ![f] = 0]
                        /\ pStop' = NoStop
                        /\ pcP' = "start"
    /\ UNCHANGED <<fsVars, procs, current_preset, last_switch, pPreset, pForced, pNow,
                   pOld, pData, eVars, aVars, ctlVars, envVars, prevRestarted>>

\* a stop that returns without waiting for the process
P_StopWait_m ==
    /\ pcP = "stopwait"
    /\ pidfile' = [pidfile EXCEPT ![pStop.f] = 0]
    /\ pcP' = "start"
    /\ pStop' = NoStop
    /\ UNCHANGED <<procs, fsVars, current_preset, last_switch, pPreset, pForced, pNow,
                   pOld, pData, eVars, aVars, ctlVars, envVars, pHist>>

\* wait_for_exit(pid, 5.0): the process is seen gone, or the timeout runs out
\* and do_stop sends SIGKILL; then the pid file is unlinked
P_StopWait ==
    /\ pcP = "stopwait"
    /\ procs' = [procs EXCEPT ![pStop.pid] = NoProc]
    /\ pidfile' = [pidfile EXCEPT ![pStop.f] = 0]
    /\ pcP' = "start"
    /\ pStop' = NoStop
    /\ UNCHANGED <<fsVars, current_preset, last_switch, pPreset, pForced, pNow,
                   pOld, pData, eVars, aVars, ctlVars, envVars, pHist>>

\* tl_restart, second half: tlctl start; then the tick records the preset
P_Start ==
    /\ pcP = "start"
    /\ UNCHANGED wFailed
    /\ pCmds' = Append(pCmds, "start")
    /\ \E spawned \in BOOLEAN : do_start(spawned)
    /\ P_Finish
    /\ UNCHANGED <<fsVars, pPreset, pForced, pNow, pOld, pData, pStop,
                   eVars, aVars, ctlVars, envVars, prevRestarted>>

\* time.sleep(cfg.interval_s) at the end of the pass; the next pass starts
\* from the loop's top
P_Sleep ==
    /\ pcP = "sleep"
    /\ UNCHANGED wFailed
    /\ pcP' = "idle"
    /\ pPreset' = ""
    /\ pForced' = FALSE
    /\ pNow' = 0
    /\ pCmds' = <<>>
    /\ UNCHANGED <<current_preset, last_switch, pOld, pData, pStop, prevRestarted,
                   fsVars, eVars, aVars, ctlVars, supVars, envVars>>

\* ------------------------------------------------------------ environment
Advance ==
    /\ now < MaxTime
    /\ now' = now + 1
    /\ UNCHANGED <<lux, fsVars, eVars, aVars, pVars, ctlVars, supVars, pHist>>

SetLux(v) ==
    /\ lux # v
    /\ lux' = v
    /\ UNCHANGED <<now, fsVars, eVars, aVars, pVars, ctlVars, supVars, pHist>>

\* SIGTERM or SIGINT reaches awb_adjuster or lux_controller: _stop sets the
\* flag and returns, the interrupted code goes on
SigTerm(d) ==
    /\ ~stop_flag[d]
    /\ stop_flag' = [stop_flag EXCEPT ![d] = TRUE]
    /\ UNCHANGED <<luxctl, presetsOk, ctlA, launch, fsVars, eVars, aVars, pVars,
                   supVars, envVars, pHist>>

\* SIGTERM reaches lux_exposured, which installs no handler: the process ends
\* where it stands; the kernel closes its descriptors and drops its flock,
\* buffered bytes not yet flushed are lost
SigTermE ==
    /\ pcE \notin {"exited", "dead"}
    /\ pcE' = "exited"
    /\ lock' = IF lock = "E" THEN "none" ELSE lock
    /\ fd' = [fd EXCEPT !["E"] = "closed"]
    /\ UNCHANGED <<cfgC, tmpC, eUpd, eNew, ctlE, astro_active, astro_written,
                   below_threshold_since, above_threshold_since, ema_et, eRuns, calc, eBase,
                   aVars, pVars, ctlVars, supVars, envVars, pHist>>

\* the dashboard posts the settings form with an empty or non-numeric
\* shutter: convert_value yields None and save_config stores it (the
\* rewrite of the file taken as one step)
api_config ==
    /\ cfgC.st = "full"
    /\ cfgC.rec["shutter"] # NullVal
    /\ cfgC' = Full([cfgC.rec EXCEPT !["shutter"] = NullVal])
    /\ UNCHANGED <<tmpC, fd, lock, envVars, eVars, aVars, pVars, ctlVars, supVars, pHist>>

\* the dashboard edits lux_control.json (enabled, force_preset, cooldown_s)
CtlSet(c) ==
    /\ luxctl # c
    /\ luxctl' = c
    /\ UNCHANGED <<presetsOk, ctlA, launch, stop_flag, envVars, fsVars, eVars, aVars, pVars, supVars, pHist>>

\* the dashboard deletes or saves a preset file
PresetToggle(name) ==
    /\ presetsOk' = IF name \in presetsOk THEN presetsOk \ {name}
                    ELSE presetsOk \cup {name}
    /\ UNCHANGED <<luxctl, ctlA, launch, stop_flag, envVars, fsVars, eVars, aVars, pVars, supVars, pHist>>

\* ---------------------------------------------------------- specifications
vars == <<cfgC, tmpC, fd, lock,
          pcE, eUpd, eNew, ctlE, astro_active, astro_written,
          below_threshold_since, above_threshold_since, ema_et, eRuns, calc, eBase,
          pcA, aUpd, aNew, awbCalc, ctlA,
          pcP, current_preset, last_switch, pPreset, pForced, pNow, pOld, pData,
          pStop, luxctl, presetsOk, pidfile, procs, now, lux,
          pCmds, prevRestarted, launch, stop_flag, wFailed>>

CtlVals == [enabled : BOOLEAN, force_preset : {"", "night"}, cooldown_s : {2, 3}]

\* the state after the three daemons have started (before their first tick),
\* the config file given
InitLocals ==
    /\ now = 1
    /\ tmpC = NoFile
    /\ fd = [w \in Writers |-> "closed"]
    /\ lock = "none"
    /\ pcE = "idle" /\ eUpd = NoUpd /\ eNew = EmptyRec
    /\ astro_active = FALSE /\ astro_written = FALSE
    /\ below_threshold_since = 0 /\ above_threshold_since = 0
    /\ eRuns = [below |-> 0, above |-> 0, seeded |-> FALSE]
    /\ ema_et = EmaStart(LoadE(cfgC))
    /\ pcA = "idle" /\ aUpd = NoUpd /\ aNew = EmptyRec
    /\ pcP = "idle" /\ current_preset = "" /\ last_switch = now - FirstSwitchOffset
    /\ pPreset = "" /\ pForced = FALSE /\ pNow = 0 /\ pOld = EmptyRec
    /\ pData = EmptyRec /\ pStop = NoStop
    /\ pCmds = <<>> /\ prevRestarted = FALSE
    /\ wFailed = {}
    /\ eBase = NoFile
    /\ stop_flag = [d \in {"A", "P"} |-> FALSE]

\* the daemons run as services: no --once, the default tlctl command
DefaultLaunch == [once |-> FALSE, tlctl |-> TRUE]

InitCommon == InitLocals /\ launch = DefaultLaunch

E_Next == E_Tick \/ E_Lock \/ E_Load \/ E_Open \/ E_Write \/ E_Rename \/ E_Sleep
A_Next == A_Tick \/ A_Lock \/ A_Open \/ A_Write \/ A_Rename \/ A_Sleep
P_Next == P_Tick \/ P_Open \/ P_Write \/ P_Rename \/ P_Decide \/ P_Stop
            \/ P_StopWait \/ P_Start \/ P_Sleep
Proc_Next == \E p \in Pids : ProcWritePid(p) \/ ProcExit(p) \/ ProcDie(p)

\* a capture process started under the initial config is up
SessionUp ==
    /\ \E f \in Folders :
          /\ f = pidfile_from_config
          /\ pidfile = [g \in Folders |-> IF g = f THEN 1 ELSE 0]
          /\ procs = [p \in Pids |-> IF p = 1 THEN [st |-> "running", pf |-> f]
                                     ELSE NoProc]

\* no capture process has been started yet
SessionDown ==
    /\ pidfile = [f \in Folders |-> 0]
    /\ procs = [p \in Pids |-> NoProc]

\* The three writers on one config file, the switcher holding a forced preset;
\* control file, lux, clock and the capture processes stand still.
InitStore ==
    /\ awbCalc = NoAwbCalc
    /\ ctlA = AwbDefaults
    /\ cfgC \in {Full(c) : c \in InitCfgs}
    /\ InitCommon
    /\ calc = NoCalc
    /\ SessionUp
    /\ lux = 2
    /\ ctlE = [enter |-> 1, exit |-> 3, hold_on |-> 0, hold_off |-> 0, ae_only |-> TRUE]
    /\ luxctl = [enabled |-> TRUE, force_preset |-> "night", cooldown_s |-> 2]
    /\ presetsOk = PresetNames

NextStore == E_Next \/ A_Next \/ P_Next

SpecStore == InitStore /\ [][NextStore]_vars


\* The switcher with the supervisor and the capture processes; the dashboard
\* edits enabled / force_preset and deletes or restores the "night" preset;
\* the clock stands still.
InitSwitch ==
    /\ awbCalc = NoAwbCalc
    /\ ctlA = AwbDefaults
    /\ cfgC \in {Full(c) : c \in InitCfgs}
    /\ InitCommon
    /\ calc = NoCalc
    /\ (SessionUp \/ SessionDown)
    /\ lux = 1
    /\ ctlE = [enter |-> 1, exit |-> 3, hold_on |-> 0, hold_off |-> 0, ae_only |-> TRUE]
    /\ luxctl = [enabled |-> TRUE, force_preset |-> "", cooldown_s |-> 2]
    /\ presetsOk = PresetNames

NextSwitch ==
    \/ P_Next
    \/ Proc_Next
    \/ \E v \in LuxVals \cup {NoLux} : SetLux(v)
    \/ \E c \in CtlVals : c.cooldown_s = luxctl.cooldown_s /\ CtlSet(c)
    \/ PresetToggle("night")

SpecSwitch == InitSwitch /\ [][NextSwitch]_vars

\* The switcher on the lux path over time: the clock advances, lux and the
\* cooldown_s of the control file change; capture processes come up.
InitCooldown ==
    /\ awbCalc = NoAwbCalc
    /\ ctlA = AwbDefaults
    /\ cfgC \in {Full(c) : c \in InitCfgs}
    /\ InitCommon
    /\ calc = NoCalc
    /\ SessionDown
    /\ lux = 1
    /\ ctlE = [enter |-> 1, exit |-> 3, hold_on |-> 0, hold_off |-> 0, ae_only |-> TRUE]
    /\ luxctl \in {c \in CtlVals : c.enabled /\ c.force_preset = ""}
    /\ presetsOk = PresetNames

NextCooldown ==
    \/ P_Next
    \/ Advance
    \/ \E p \in Pids : ProcWritePid(p)
    \/ \E v \in LuxVals : SetLux(v)
    \/ \E c \in CtlVals : c.enabled /\ c.force_preset = "" /\ CtlSet(c)
    \/ PresetToggle("night")

SpecCooldown == InitCooldown /\ [][NextCooldown]_vars

\* The exposure controller alone over time, for control files whose exit
\* threshold lies above the enter threshold.
AstroCtls ==
    [enter : {1}, exit : {2, 3}, hold_on : {0, 2}, hold_off : {0, 1}, ae_only : BOOLEAN]

\* live records with ae_enable absent, false and true
AeCfgs == {[InitCfgRec EXCEPT !["ae_enable"] = v] : v \in 0..2}

InitAstro ==
    /\ awbCalc = NoAwbCalc
    /\ ctlA = AwbDefaults
    /\ cfgC \in {Full(c) : c \in AeCfgs}
    /\ InitCommon
    /\ calc = NoCalc
    /\ SessionDown
    /\ lux = 2
    /\ ctlE \in AstroCtls
    /\ luxctl = [enabled |-> FALSE, force_preset |-> "", cooldown_s |-> 2]
    /\ presetsOk = PresetNames

NextAstro ==
    \/ E_Next
    \/ Advance
    \/ \E v \in LuxVals \cup {NoLux} : SetLux(v)

SpecAstro == InitAstro /\ [][NextAstro]_vars

\* The numbers of one normal-mode tick of the exposure controller, for every
\* combination of live values, targets and limits of CalcInputs.
InitLimiter ==
    /\ awbCalc = NoAwbCalc
    /\ ctlA = AwbDefaults
    /\ cfgC \in {Full(c) : c \in InitCfgs}
    /\ InitCommon
    /\ calc \in CalcInputs
    /\ SessionDown
    /\ lux = 2
    /\ ctlE = [enter |-> 1, exit |-> 3, hold_on |-> 0, hold_off |-> 0, ae_only |-> FALSE]
    /\ luxctl = [enabled |-> FALSE, force_preset |-> "", cooldown_s |-> 2]
    /\ presetsOk = PresetNames

NextLimiter == E_Compute

SpecLimiter == InitLimiter /\ [][NextLimiter]_vars

\* The color controller alone: every setting of its two gates, live records
\* with awb_enable absent, false and true and with awb_gain_b absent; lux moves.
AwbCfgs ==
    {[InitCfgRec EXCEPT !["awb_enable"] = v, !["awb_gain_b"] = g] :
        v \in 0..2, g \in 0..1}

InitColor ==
    /\ cfgC \in {Full(c) : c \in AwbCfgs}
    /\ InitCommon
    /\ calc = NoCalc
    /\ awbCalc = NoAwbCalc
    /\ ctlA \in [use_lux_gate : BOOLEAN, require_awb_disabled : BOOLEAN]
    /\ SessionDown
    /\ lux = 2
    /\ ctlE = [enter |-> 1, exit |-> 3, hold_on |-> 0, hold_off |-> 0, ae_only |-> TRUE]
    /\ luxctl = [enabled |-> FALSE, force_preset |-> "", cooldown_s |-> 2]
    /\ presetsOk = PresetNames

NextColor ==
    \/ A_Next
    \/ \E v \in LuxVals \cup {NoLux} : SetLux(v)

SpecColor == InitColor /\ [][NextColor]_vars

\* The numbers of one adjust_once call of the color controller, for every
\* combination of AwbInputs.
InitGain ==
    /\ cfgC \in {Full(c) : c \in InitCfgs}
    /\ InitCommon
    /\ calc = NoCalc
    /\ awbCalc \in AwbInputs
    /\ ctlA = AwbDefaults
    /\ SessionDown
    /\ lux = 2
    /\ ctlE = [enter |-> 1, exit |-> 3, hold_on |-> 0, hold_off |-> 0, ae_only |-> TRUE]
    /\ luxctl = [enabled |-> FALSE, force_preset |-> "", cooldown_s |-> 2]
    /\ presetsOk = PresetNames

NextGain == A_Compute

SpecGain == InitGain /\ [][NextGain]_vars

\* The exposure controller while the dashboard saves settings with an
\* empty shutter field.
FaultCtls ==
    [enter : {1}, exit : {2}, hold_on : {0}, hold_off : {0}, ae_only : BOOLEAN]

InitFaults ==
    /\ awbCalc = NoAwbCalc
    /\ ctlA = AwbDefaults
    /\ cfgC \in {Full(c) : c \in AeCfgs}
    /\ InitCommon
    /\ calc = NoCalc
    /\ SessionDown
    /\ lux = 2
    /\ ctlE \in FaultCtls
    /\ luxctl = [enabled |-> FALSE, force_preset |-> "", cooldown_s |-> 2]
    /\ presetsOk = PresetNames

NextFaults ==
    \/ E_Next
    \/ Advance
    \/ \E v \in LuxVals \cup {NoLux} : SetLux(v)
    \/ api_config

SpecFaults == InitFaults /\ [][NextFaults]_vars

\* The switcher with the supervisor as in SpecSwitch, for control files whose
\* tlctl command can and cannot be run.
InitSupervise ==
    /\ awbCalc = NoAwbCalc
    /\ ctlA = AwbDefaults
    /\ cfgC \in {Full(c) : c \in InitCfgs}
    /\ InitLocals
    /\ launch \in [once : {FALSE}, tlctl : BOOLEAN]
    /\ calc = NoCalc
    /\ (SessionUp \/ SessionDown)
    /\ lux = 1
    /\ ctlE = [enter |-> 1, exit |-> 3, hold_on |-> 0, hold_off |-> 0, ae_only |-> TRUE]
    /\ luxctl = [enabled |-> TRUE, force_preset |-> "", cooldown_s |-> 2]
    /\ presetsOk = PresetNames

NextSupervise ==
    \/ P_Next
    \/ Proc_Next
    \/ \E v \in LuxVals \cup {NoLux} : SetLux(v)
    \/ \E c \in CtlVals : c.cooldown_s = luxctl.cooldown_s /\ CtlSet(c)
    \/ PresetToggle("night")

SpecSupervise == InitSupervise /\ [][NextSupervise]_vars

\* The three daemons while termination signals arrive; the switcher is
\* disabled and only polls its control file.  Each daemon is a process of its
\* own that the operating system keeps scheduling.
InitSignals ==
    /\ awbCalc = NoAwbCalc
    /\ ctlA = AwbDefaults
    /\ cfgC \in {Full(c) : c \in InitCfgs}
    /\ InitCommon
    /\ calc = NoCalc
    /\ SessionDown
    /\ lux = 2
    /\ ctlE = [enter |-> 1, exit |-> 3, hold_on |-> 0, hold_off |-> 0, ae_only |-> TRUE]
    /\ luxctl = [enabled |-> FALSE, force_preset |-> "", cooldown_s |-> 2]
    /\ presetsOk = PresetNames

NextSignals ==
    \/ E_Next
    \/ A_Next
    \/ P_Tick
    \/ P_Sleep
    \/ SigTermE
    \/ SigTerm("A")
    \/ SigTerm("P")

SpecSignals ==
    /\ InitSignals
    /\ [][NextSignals]_vars
    /\ WF_vars(E_Next)
    /\ WF_vars(A_Next)
    /\ WF_vars(P_Tick \/ P_Sleep)

\* The supervisor driven from the dashboard, with room for two capture
\* processes more than the other specifications allow; the config names either
\* log folder.
SupProcs == MaxProcs + 2

InitTlctl ==
    /\ awbCalc = NoAwbCalc
    /\ ctlA = AwbDefaults
    /\ cfgC \in {Full([InitCfgRec EXCEPT !["log_folder"] = f]) : f \in Folders}
    /\ InitCommon
    /\ calc = NoCalc
    /\ pidfile = [f \in Folders |-> 0]
    /\ procs = [p \in 1..SupProcs |-> NoProc]
    /\ lux = 2
    /\ ctlE = [enter |-> 1, exit |-> 3, hold_on |-> 0, hold_off |-> 0, ae_only |-> TRUE]
    /\ luxctl = [enabled |-> FALSE, force_preset |-> "", cooldown_s |-> 2]
    /\ presetsOk = PresetNames

NextTlctl ==
    \/ Tl_Start
    \/ Tl_Stop
    \/ \E p \in 1..SupProcs : ProcWritePid(p) \/ ProcExit(p) \/ ProcDie(p)

SpecTlctl == InitTlctl /\ [][NextTlctl]_vars

\* The switcher started with --once, for every control file of CtlVals with
\* cooldown 2 and every lux reading; control file and sensor log stand still.
InitOnce ==
    /\ awbCalc = NoAwbCalc
    /\ ctlA = AwbDefaults
    /\ cfgC \in {Full(c) : c \in InitCfgs}
    /\ InitLocals
    /\ launch = [once |-> TRUE, tlctl |-> TRUE]
    /\ calc = NoCalc
    /\ (SessionUp \/ SessionDown)
    /\ lux \in LuxVals \cup {NoLux}
    /\ ctlE = [enter |-> 1, exit |-> 3, hold_on |-> 0, hold_off |-> 0, ae_only |-> TRUE]
    /\ luxctl \in {c \in CtlVals : c.cooldown_s = 2}
    /\ presetsOk = PresetNames

NextOnce ==
    \/ P_Next
    \/ Proc_Next

SpecOnce == InitOnce /\ [][NextOnce]_vars

\* Two evaluations of the exposure table's interpolation, for every table of
\* InterpTables and every pair of lux arguments.
InitInterp ==
    /\ awbCalc = NoAwbCalc
    /\ ctlA = AwbDefaults
    /\ cfgC \in {Full(c) : c \in InitCfgs}
    /\ InitCommon
    /\ calc \in InterpInputs
    /\ SessionDown
    /\ lux = 2
    /\ ctlE = [enter |-> 1, exit |-> 3, hold_on |-> 0, hold_off |-> 0, ae_only |-> TRUE]
    /\ luxctl = [enabled |-> FALSE, force_preset |-> "", cooldown_s |-> 2]
    /\ presetsOk = PresetNames

NextInterp == E_Interp

SpecInterp == InitInterp /\ [][NextInterp]_vars

\* The exposure controller and the color controller as the only writers of
\* the config file, in normal mode and in astro mode, by day and by night.
InitPair ==
    /\ awbCalc = NoAwbCalc
    /\ ctlA = AwbDefaults
    /\ cfgC \in {Full(c) : c \in InitCfgs}
    /\ InitCommon
    /\ calc = NoCalc
    /\ SessionDown
    /\ lux = 2
    /\ ctlE = [enter |-> 1, exit |-> 3, hold_on |-> 0, hold_off |-> 0, ae_only |-> TRUE]
    /\ luxctl = [enabled |-> FALSE, force_preset |-> "", cooldown_s |-> 2]
    /\ presetsOk = PresetNames

NextPair ==
    \/ E_Next
    \/ A_Next
    \/ \E v \in LuxVals : SetLux(v)

SpecPair == InitPair /\ [][NextPair]_vars

\* The switcher, the dashboard's session buttons and the capture processes:
\* lux moves, the dashboard forces and releases the "night" preset, processes
\* write their pid file some time after they were spawned.
InitSession ==
    /\ awbCalc = NoAwbCalc
    /\ ctlA = AwbDefaults
    /\ cfgC \in {Full(c) : c \in InitCfgs}
    /\ InitCommon
    /\ calc = NoCalc
    /\ pidfile = [f \in Folders |-> 0]
    /\ procs = [p \in 1..SupProcs |-> NoProc]
    /\ lux = 3
    /\ ctlE = [enter |-> 1, exit |-> 3, hold_on |-> 0, hold_off |-> 0, ae_only |-> TRUE]
    /\ luxctl = [enabled |-> TRUE, force_preset |-> "", cooldown_s |-> 2]
    /\ presetsOk = PresetNames

NextSession ==
    \/ P_Next
    \/ Tl_Start
    \/ Tl_Stop
    \/ \E p \in 1..SupProcs : ProcWritePid(p) \/ ProcExit(p) \/ ProcDie(p)
    \/ \E c \in CtlVals : c.enabled /\ c.cooldown_s = luxctl.cooldown_s /\ CtlSet(c)

SpecSession == InitSession /\ [][NextSession]_vars

\* The exposure controller's normal-mode ticks one after the other at a lux
\* that stays, with auto-exposure off and nobody else writing, for every live
\* record and control file of LoopInputs; the loop keeps running.
InitLoop ==
    /\ awbCalc = NoAwbCalc
    /\ ctlA = AwbDefaults
    /\ cfgC \in {Full(c) : c \in InitCfgs}
    /\ InitCommon
    /\ calc \in LoopInputs
    /\ SessionDown
    /\ lux = 2
    /\ ctlE = [enter |-> 1, exit |-> 3, hold_on |-> 0, hold_off |-> 0, ae_only |-> FALSE]
    /\ luxctl = [enabled |-> FALSE, force_preset |-> "", cooldown_s |-> 2]
    /\ presetsOk = PresetNames

NextLoop == E_Adjust

SpecLoop == InitLoop /\ [][NextLoop]_vars /\ WF_vars(E_Adjust)

\* The switcher on the lux path with capture processes that can fail to
\* start or die; lux and the clock move.  The switcher's loop keeps running.
InitRestart ==
    /\ awbCalc = NoAwbCalc
    /\ ctlA = AwbDefaults
    /\ cfgC \in {Full(c) : c \in InitCfgs}
    /\ InitCommon
    /\ calc = NoCalc
    /\ (SessionUp \/ SessionDown)
    /\ lux \in LuxVals
    /\ ctlE = [enter |-> 1, exit |-> 3, hold_on |-> 0, hold_off |-> 0, ae_only |-> TRUE]
    /\ luxctl = [enabled |-> TRUE, force_preset |-> "", cooldown_s |-> 2]
    /\ presetsOk = PresetNames

NextRestart ==
    \/ P_Next
    \/ Proc_Next
    \/ Advance
    \/ \E v \in LuxVals : SetLux(v)

SpecRestart == InitRestart /\ [][NextRestart]_vars /\ WF_vars(P_Next)

\* ------------------------------------------------------------------ claims
\* A writer is inside its read-modify-write section from the read it bases
\* its write on (the in-lock reload; for the switcher the preset load) to the
\* rename that replaces the config file.
InSection(w) ==
    CASE w = "E" -> pcE \in {"open", "write", "rename"}
      [] w = "A" -> pcA \in {"open", "write", "rename"}
      [] w = "P" -> pcP \in {"open", "write", "rename"}

\* C1: at most one of the exposure controller, the color controller and the
\* preset switcher is inside its config read-modify-write section at a time.
C1_MutualExclusion ==
    \A v, w \in Writers : (InSection(v) /\ InSection(w)) => v = w

\* the keys a writer assigns in the record it saves
Assigns(w) ==
    CASE w = "E" -> SetKeys(eUpd)
      [] w = "A" -> SetKeys(aUpd)
      [] w = "P" -> Keys

Renames(w) ==
    /\ RenameOk
    /\ CASE w = "E" -> pcE = "rename" /\ pcE' = "sleep"
         [] w = "A" -> pcA = "rename" /\ pcA' = "sleep"
         [] w = "P" -> pcP = "rename" /\ pcP' = "decide"

\* C2: no write clobbers a sibling's more recent write: every key of the
\* record holds the value of the latest write that set it, i.e. a write that
\* replaces the config file leaves every key it does not itself assign as the
\* file had it just before the replacement.
C2_NoClobber ==
    [][\A w \in Writers :
          (Renames(w) /\ cfgC.st = "full" /\ cfgC'.st = "full")
              => \A k \in Keys \ Assigns(w) : cfgC'.rec[k] = cfgC.rec[k]]_vars

\* what a writer has handed to its temp file
Saving(w) ==
    CASE w = "E" -> eNew
      [] w = "A" -> aNew
      [] w = "P" -> pData

\* C3: the config file is never partially written (its content is always one
\* complete record), and every rename moves a temp file holding exactly what
\* the renaming writer wrote.
C3_AtomicReplace ==
    [][/\ cfgC'.st = "full"
       /\ \A w \in Writers : Renames(w) => tmpC = Full(Saving(w))]_vars

\* the switcher's rename that completes apply_preset_to_config
ApplyStep == pcP = "rename" /\ pcP' = "decide"

\* C4: applying a preset leaves shutter, gain, awb_gain_r and awb_gain_b equal
\* to the values the live config held just before the apply.
C4_TunablesPreserved ==
    [][(ApplyStep /\ cfgC.st = "full")
          => \A k \in TunableKeys : cfgC'.rec[k] = cfgC.rec[k]]_vars

\* a pass of the switcher's loop starts and ends in this step or goes on to
\* apply a preset
TickStep == pcP = "idle" /\ pcP' # "idle"

\* the tick is on the lux path and its mapping resolves to a preset other than
\* the active one
LuxChange ==
    /\ luxctl.enabled /\ luxctl.force_preset = "" /\ lux # NoLux
    /\ \E i \in 1..Len(Mappings) :
          /\ Mappings[i].min_lux <= lux /\ lux <= Mappings[i].max_lux
          /\ \A j \in 1..(i - 1) : lux < Mappings[j].min_lux \/ lux > Mappings[j].max_lux
          /\ Mappings[i].preset # current_preset

\* the preset a lux-path tick resolves to
LuxTarget ==
    LET i == CHOOSE i \in 1..Len(Mappings) :
                /\ Mappings[i].min_lux <= lux /\ lux <= Mappings[i].max_lux
                /\ \A j \in 1..(i - 1) : lux < Mappings[j].min_lux \/ lux > Mappings[j].max_lux
    IN  Mappings[i].preset

\* a switch has been applied before
Switched == last_switch >= 1

\* an apply runs to its end: the tick records the preset
RecordStep == pcP \in {"decide", "start"} /\ pcP' = "sleep"

\* C5 as stated: a lux-driven switch is applied only when cooldown_s has
\* passed since the last applied one; a change resolved earlier is not applied
\* at that tick; and every tick that finds the cooldown over and the mapping
\* resolving to a different preset applies that preset.
C5_CooldownAsStated ==
    [][/\ (TickStep /\ LuxChange /\ Switched /\ now - last_switch < luxctl.cooldown_s)
             => pcP' = "sleep"
       /\ (TickStep /\ LuxChange /\ now - last_switch >= luxctl.cooldown_s)
             => (pcP' = "open" /\ pPreset' = LuxTarget /\ ~pForced')
       /\ (RecordStep /\ ~pForced)
             => (current_preset' = pPreset /\ last_switch' = pNow)]_vars

\* C5, amended: as above, but the tick that finds the cooldown over applies
\* the preset only when the preset's file can be loaded; otherwise it applies
\* nothing and records no switch.
C5_Cooldown ==
    [][/\ (TickStep /\ LuxChange /\ Switched /\ now - last_switch < luxctl.cooldown_s)
             => pcP' = "sleep"
       /\ (TickStep /\ LuxChange /\ now - last_switch >= luxctl.cooldown_s)
             => IF LuxTarget \in presetsOk
                THEN pcP' = "open" /\ pPreset' = LuxTarget /\ ~pForced' /\ pNow' = now
                ELSE pcP' = "sleep" /\ UNCHANGED <<current_preset, last_switch, cfgC>>
       /\ (RecordStep /\ ~pForced)
             => (current_preset' = pPreset /\ last_switch' = pNow)]_vars

\* a second lux-driven switch starts, the cooldown after the first one over
C5_Witness ==
    /\ pcP = "open" /\ ~pForced /\ pPreset = "day" /\ current_preset = "dusk"
    /\ Switched /\ pNow - last_switch >= luxctl.cooldown_s

\* old and new config differ on one of the six critical keys
CritDiff(old, new) ==
    \/ old["camera_id"] # new["camera_id"]
    \/ old["use_hdr"] # new["use_hdr"]
    \/ old["resolution"] # new["resolution"]
    \/ old["timelapse_folder"] # new["timelapse_folder"]
    \/ old["raw_folder"] # new["raw_folder"]
    \/ old["duration"] # new["duration"]

\* the record a reader gets from the config file ({} when unreadable)
LiveCfg == IF cfgC.st = "full" THEN cfgC.rec ELSE EmptyRec

\* the pid file of the live config names a process that exists
StatusRunning ==
    LET pid == pidfile[LiveCfg["log_folder"]]
    IN  pid \in Pids /\ procs[pid].st \in {"starting", "running"}

\* the switcher decides after a successful apply
DecideStep == pcP = "decide" /\ pcP' # "decide"

\* C6: after a successful apply a restart is commanded exactly when old and
\* new config differ on a critical key or status reports the capture process
\* not running.
C6_RestartIff ==
    [][DecideStep => (pcP' = "stop" <=> (CritDiff(pOld, LiveCfg) \/ ~StatusRunning))]_vars

\* a restart commanded for a critical key while the capture process runs
C6_Witness == pcP = "stop" /\ StatusRunning /\ pCmds = <<>>

\* the command sequences of a tick: status at most once and first, a restart
\* as stop followed by start
TickCmds ==
    { <<>>, <<"status">>, <<"stop">>, <<"status", "stop">>,
      <<"stop", "start">>, <<"status", "stop", "start">> }

\* C7: every restart is a stop followed by a start, never a restart command,
\* and the start is issued only after the stopped process was seen not running
\* or the bounded wait for it ran out (and it was killed).
C7_StopThenStart ==
    [][/\ pCmds' \in TickCmds
       /\ (pcP # "start" /\ pcP' = "start")
             => \/ pcP = "stop" /\ ~StatusRunning
                \/ pcP = "stopwait" /\ pStop.pid \in Pids
                     /\ procs'[pStop.pid].st = "free"
       /\ (pcP = "start" /\ pcP' # "start")
             => pCmds' = Append(pCmds, "start") /\ pCmds[Len(pCmds)] = "stop"]_vars

\* a restart issued as stop then start, the new capture process spawned
C7_Witness ==
    /\ pcP = "sleep" /\ pCmds = <<"stop", "start">>
    /\ \E p \in Pids : procs[p].st = "starting"

\* the same preset is applied again with no critical key changed since the
\* apply before it
RepeatDecide ==
    /\ DecideStep /\ pPreset = current_preset /\ ~CritDiff(pOld, LiveCfg)

\* C8 as stated: applying the same preset twice in a row with no critical key
\* changed in between commands at most one restart over the two applies.
C8_OneRestartAsStated ==
    [][(RepeatDecide /\ prevRestarted) => pcP' # "stop"]_vars

\* C8, amended: the second of two such applies commands a restart exactly when
\* status reports the capture process not running; so at most one restart
\* over the two applies whenever the process is up at the second one.
C8_OneRestart ==
    [][RepeatDecide => (pcP' = "stop" <=> ~StatusRunning)]_vars

\* the second apply of a preset whose first apply restarted, process running
C8_Witness ==
    /\ pcP = "decide" /\ pPreset = current_preset /\ prevRestarted
    /\ ~CritDiff(pOld, LiveCfg) /\ StatusRunning

\* the tick finds the switcher enabled with a forced preset
ForcedTick == TickStep /\ luxctl.enabled /\ luxctl.force_preset # ""

\* C9 as stated: while force_preset is set and the switcher is enabled, every
\* tick applies the forced preset, never a lux-chosen one, and the recorded
\* active preset is the forced one.
C9_ForcedAsStated ==
    [][/\ ForcedTick
             => (pcP' = "open" /\ pPreset' = luxctl.force_preset /\ pForced')
       /\ (RecordStep /\ pForced) => current_preset' = pPreset]_vars

\* C9, amended: every such tick tries the forced preset and no other; when
\* its file can be loaded the preset is applied and, the save done, recorded
\* as active. When the file cannot be loaded nothing is applied and the
\* recorded preset stays.
C9_Forced ==
    [][/\ ForcedTick
             => /\ pPreset' = luxctl.force_preset /\ pForced'
                /\ IF luxctl.force_preset \in presetsOk
                   THEN pcP' = "open" /\ pData' = PresetFile(luxctl.force_preset)
                   ELSE pcP' = "sleep" /\ UNCHANGED <<current_preset, cfgC>>
       /\ (RecordStep /\ pForced)
             => (current_preset' = pPreset /\ UNCHANGED last_switch)]_vars

\* a forced preset recorded as active while lux maps to another preset
C9_Witness ==
    /\ pcP = "sleep" /\ pForced /\ pPreset = "night" /\ current_preset = "night"
    /\ lux = 3 /\ LiveCfg = PresetFile("night")

\* a tick of the exposure controller that has a lux reading
DataTick == pcE = "idle" /\ pcE' # "idle" /\ lux # NoLux

\* lux has been at or below enter on every tick of a run that, with this
\* tick, spans the hold-on duration
HeldBelow ==
    /\ lux <= ctlE.enter
    /\ now - (IF eRuns.below = 0 THEN now ELSE eRuns.below) >= ctlE.hold_on

HeldAbove ==
    /\ lux >= ctlE.exit
    /\ now - (IF eRuns.above = 0 THEN now ELSE eRuns.above) >= ctlE.hold_off

\* C10: the exposure controller goes NORMAL to ASTRO exactly at the first tick
\* at which lux has been at or below the enter threshold on every tick for at
\* least the hold-on duration, ASTRO to NORMAL exactly at the first tick at
\* which it has been at or above the exit threshold on every tick for at least
\* the hold-off duration, and no other step changes the astro state.
C10_AstroHysteresis ==
    [][IF DataTick
       THEN astro_active' = IF ~astro_active /\ HeldBelow THEN TRUE
                            ELSE IF astro_active /\ HeldAbove THEN FALSE
                            ELSE astro_active
       ELSE astro_active' = astro_active]_vars

\* back in NORMAL after the hold-off, the astro values of the ASTRO phase
\* still in the config file
C10_Witness ==
    /\ ~astro_active /\ pcE # "idle"
    /\ cfgC = Full([InitCfgRec EXCEPT !["shutter"] = AstroShutter, !["gain"] = AstroGain])
    /\ eRuns.above # 0 /\ now - eRuns.above >= ctlE.hold_off

\* C11: with the exit threshold above the enter threshold, a tick at which lux
\* has not been at or below enter for the hold-on duration nor at or above
\* exit for the hold-off duration (in particular every tick of a sequence that
\* stays strictly between the thresholds) leaves the astro state as it is,
\* whichever state that is.
C11_NoChangeUnlessHeld ==
    [][(~(DataTick /\ HeldBelow) /\ ~(DataTick /\ HeldAbove))
          => astro_active' = astro_active]_vars

\* ASTRO kept through a tick whose lux lies strictly between the thresholds
C11_Witness ==
    /\ astro_active /\ pcE = "sleep" /\ lux # NoLux
    /\ ctlE.enter < lux /\ lux < ctlE.exit
    /\ eRuns.below = 0 /\ eRuns.above = 0

\* the astro values are in the config file
AstroValuesLive ==
    /\ cfgC.st = "full"
    /\ cfgC.rec["shutter"] = AstroShutter /\ cfgC.rec["gain"] = AstroGain

\* C12: in each ASTRO episode the exposure controller writes the fixed astro
\* shutter and gain exactly once: the tick that enters ASTRO asks for that
\* write, the write changes those two keys only, and no later tick of the
\* episode writes; the running average is not updated while ASTRO is active.
C12_AstroWriteOnce ==
    [][/\ (DataTick /\ ~astro_active /\ astro_active')
             => /\ pcE' = "lock"
                /\ eUpd' = [NoUpd EXCEPT !["shutter"] = AstroShutter,
                                         !["gain"] = AstroGain]
       /\ (DataTick /\ astro_active /\ astro_active') => pcE' = "sleep"
       /\ (astro_active /\ cfgC' # cfgC)
             => /\ pcE = "rename" /\ cfgC.st = "full"
                /\ cfgC' = Full([cfgC.rec EXCEPT !["shutter"] = AstroShutter,
                                                 !["gain"] = AstroGain])
       /\ astro_active' => ema_et' = ema_et]_vars

\* inside an episode, the astro values written, a later tick done, the
\* running average away from the table value of the lux seen
C12_Witness ==
    /\ astro_active /\ astro_written /\ pcE = "sleep" /\ AstroValuesLive
    /\ lux # NoLux /\ ema_et # TableEt(lux)
    /\ eRuns.below # 0 /\ now > eRuns.below

\* C13: in every normal-mode tick the shutter proposed by the step limiter
\* differs from the live shutter by at most live shutter times
\* max_step_shutter_pct, and the proposed gain from the live gain by at most
\* live gain times max_step_gain_pct (before the absolute clamps).
C13_StepLimit ==
    (calc # NoCalc /\ calc.done)
       => /\ 100 * Abs(calc.step_s - calc.shutter)
                <= calc.shutter * calc.max_step_shutter_pct
          /\ Abs(calc.step_g - 100 * calc.gain)
                <= calc.gain * calc.max_step_gain_pct

\* C16: every shutter value the exposure controller writes in normal mode
\* lies in [min_shutter_us, max_shutter_us] and every gain value it writes in
\* [min_gain, min(max_gain, max gain for the camera)], whatever the live
\* record and the control file, also when the interval-derived ceiling is
\* below min_shutter_us and when the live values start outside the ranges.
C16_WrittenInRange ==
    (calc # NoCalc /\ calc.done)
       => /\ calc.write_s
                => (calc.min_shutter_us <= calc.prop_s
                    /\ calc.prop_s <= calc.max_shutter_us)
          /\ calc.write_g
                => (100 * calc.min_gain <= calc.prop_g
                    /\ calc.prop_g <= 100 * Min(calc.max_gain, calc.max_gain_by_camera))

\* a tick with a lux reading that ends in normal mode
NormalTick == DataTick /\ ~astro_active'

C15_AeGate ==
    [][(NormalTick /\ ctlE.ae_only /\ LiveCfg["ae_enable"] \in {0, 2})
          => (pcE' = "sleep" /\ eUpd' = NoUpd /\ cfgC' = cfgC)]_vars

\* a gated tick: targets computed (the running average moved), live values
\* away from the proposals, nothing written
C15_Witness ==
    /\ pcE = "sleep" /\ ~astro_active /\ ctlE.ae_only /\ LiveCfg["ae_enable"] = 2
    /\ lux # NoLux /\ lux > ctlE.enter /\ ema_et # EmaStart(LiveCfg)
    /\ LiveCfg["shutter"] \notin ShutterProps /\ eRuns.below = 0

\* a pass of the color controller's loop
AwbTick == pcA = "idle" /\ pcA' # "idle"

\* the night gate and the awb gate as the claim words them
NightGate == lux # NoLux /\ lux <= NightMaxLux
AwbGate == LiveCfg["awb_enable"] = 1

\* the color controller's steps that change the config file
AwbWrites == cfgC' # cfgC => (pcA = "rename" /\ pcA' = "sleep")

LiveGain(k) == IF LiveCfg[k] = 0 THEN 1 ELSE LiveCfg[k]

C18_GainsInRange ==
    (awbCalc # NoAwbCalc /\ awbCalc.done /\ awbCalc.written)
       => \A g \in {awbCalc.new_r, awbCalc.new_b} :
             /\ awbCalc.gain_min * 1000000 <= g
             /\ g <= awbCalc.gain_max * 1000000

\* C20: no tick of the exposure controller is fatal: a tick that raises is
\* caught, the loop stays alive and goes on to its sleep, so every tick ends
\* either asleep or on its way to a write.
C20_TickNotFatal ==
    [][(pcE = "idle" /\ pcE' # "idle") => pcE' \in {"sleep", "lock"}]_vars

\* C21: a failing supervisor command never ends the preset switcher's loop:
\* whatever stop, start or status do, or when the command cannot be run at
\* all, the switcher is never left dead.
C21_LoopSurvives == pcP # "dead"

\* C22: after a termination signal each controller loop eventually exits,
\* and it exits only between ticks (from the loop's top or its sleep), never
\* from inside a tick's computation or write section.
C22_CleanExit ==
    /\ [][/\ (pcE # "exited" /\ pcE' = "exited") => pcE \in {"idle", "sleep"}
          /\ (pcA # "exited" /\ pcA' = "exited") => pcA \in {"idle", "sleep"}
          /\ (pcP # "exited" /\ pcP' = "exited") => pcP \in {"idle", "sleep"}]_vars
    /\ (stop_flag["A"] ~> pcA = "exited")
    /\ (stop_flag["P"] ~> pcP = "exited")

\* C23: the config lock is released on every exit from a write section, also
\* when the read inside the section or the save fails: the step on which a
\* controller leaves its section, and the step on which its write attempt
\* fails, leave the lock free for the next requester.
C23_LockReleased ==
    [][\A w \in {"E", "A"} :
          /\ (InSection(w) /\ ~InSection(w)') => lock' = "none"
          /\ (w \in wFailed' /\ w \notin wFailed) => lock' = "none"]_vars

\* the color controller's write attempt failed and the exposure controller
\* has since acquired the lock
C23_Witness == "A" \in wFailed /\ pcA = "sleep" /\ lock = "E"

\* C24: a controller that is sleeping between ticks, or waiting for a
\* supervisor command (status, stop, start) to return, does not hold the
\* config lock.
C24_NoLockWhileWaiting ==
    /\ pcE = "sleep" => lock # "E"
    /\ pcA = "sleep" => lock # "A"
    /\ pcP \in {"sleep", "decide", "stop", "stopwait", "start"} => lock # "P"

\* the exposure controller sleeps and the switcher waits for tlctl while the
\* color controller is inside its locked section
C24_Witness ==
    /\ pcE = "sleep"
    /\ pcP \in {"stop", "stopwait", "start"}
    /\ lock = "A"

\* the keys a controller owns
OwnKeys(w) ==
    CASE w = "E" -> {"shutter", "gain"}
      [] w = "A" -> {"awb_gain_r", "awb_gain_b"}

\* C25: the exposure controller writes only shutter and gain, the color
\* controller only awb_gain_r and awb_gain_b: after each of their writes every
\* other key of the record that was on disk when the write section started is
\* still there with the same value, also when the read inside the section
\* fails.
C25_OnlyOwnKeys ==
    [][/\ (pcE = "rename" /\ pcE' = "sleep" /\ RenameOk /\ eBase.st = "full")
             => /\ cfgC'.st = "full"
                /\ \A k \in Keys \ OwnKeys("E") : cfgC'.rec[k] = eBase.rec[k]
       /\ (pcA = "lock" /\ pcA' = "open")
             => \A k \in Keys \ OwnKeys("A") : aNew'[k] = cfgC.rec[k]
       /\ (pcA = "rename" /\ pcA' = "sleep" /\ RenameOk)
             => /\ cfgC'.st = "full"
                /\ \A k \in Keys \ OwnKeys("A") : cfgC'.rec[k] = aNew[k]]_vars

\* a step of the switcher that saves the config or runs a supervisor command
PActs ==
    \/ pcP = "idle" /\ pcP' = "open"
    \/ pcP \in {"open", "write", "rename", "decide", "stop", "stopwait", "start"}
         /\ pcP' # pcP

\* C26 as stated: while the control file has enabled = false the switcher
\* applies no preset, writes nothing to the config and issues no supervisor
\* command.
C26_DisabledAsStated == [][~luxctl.enabled => ~PActs]_vars

\* C26: a tick that finds enabled = false goes to sleep having applied no
\* preset, written nothing and issued no supervisor command, whatever
\* force_preset and the lux mapping say; every saving or commanding step
\* belongs to a tick that found the switcher enabled and chose a preset.
C26_Disabled ==
    [][/\ (TickStep /\ ~luxctl.enabled)
             => /\ pcP' = "sleep"
                /\ UNCHANGED <<cfgC, tmpC, fd, pCmds, pidfile, procs, current_preset,
                               last_switch, pPreset>>
       /\ (PActs /\ pcP # "idle") => pPreset # ""
       /\ (PActs /\ pcP = "idle") => luxctl.enabled]_vars

\* a disabled tick has ended asleep although a preset is forced and the lux
\* mapping resolves to a preset other than the recorded one
C26_Witness ==
    /\ pcP = "sleep" /\ pPreset = ""
    /\ ~luxctl.enabled /\ luxctl.force_preset # ""
    /\ lux # NoLux /\ choose_preset(lux, Mappings) \notin {"", current_preset}

\* the capture processes that exist (starting up or capturing)
Alive == {p \in DOMAIN procs : procs[p].st # "free"}

\* C27: the supervisor operations are idempotent and report by exit code:
\* start never leads to a second capture process beside one that is running
\* or has just been started, and status answers 0 exactly when a capture
\* process is running.
C27_Idempotent ==
    /\ Cardinality(Alive) <= 1
    /\ do_status = 0 <=> Alive # {}

\* C28: started with --once the switcher performs exactly one check pass and
\* then terminates, whatever the control file and the sensor log hold: a pass
\* once begun, the loop's top is never reached again.
C28_OnePass == [][pcP' = "idle" => pcP = "idle"]_vars

\* C30: the first lux observation after the start seeds the running average:
\* after the first normal-mode tick the average equals that tick's raw table
\* value, whatever shutter and gain the live record held at startup; each
\* later normal-mode tick blends the raw value with the previous average.
C30_FirstSeeds ==
    [][(NormalTick /\ pcE' # "dead")
          => ema_et' = IF eRuns.seeded THEN (ema_et + TableEt(lux)) \div 2
                       ELSE TableEt(lux)]_vars

\* the anchors of the table in hand, and whether a lux argument is one
AnchorAt(lux2) == {a \in {calc.table[i] : i \in 1..Len(calc.table)} : 2 * a.l = lux2}
Extremes == {sorted(calc.table)[1], sorted(calc.table)[Len(calc.table)]}

\* C29 as stated: the interpolated exposure time never rises as lux rises,
\* equals the anchor's exposure time at each anchor lux, and equals the
\* extreme anchor's exposure time outside the table's domain.
C29_InterpAsStated ==
    (calc # NoCalc /\ calc.done)
       => /\ calc.lux1 <= calc.lux2 => calc.et1 >= calc.et2
          /\ \A a \in AnchorAt(calc.lux1) : calc.et1 = LogScale * a.t
          /\ calc.lux1 >= 2 * sorted(calc.table)[1].l
                => calc.et1 = LogScale * sorted(calc.table)[1].t
          /\ calc.lux1 <= 2 * sorted(calc.table)[Len(calc.table)].l
                => calc.et1 = LogScale * sorted(calc.table)[Len(calc.table)].t

\* C29: up to the rounding of the logarithm and the exponential the
\* interpolated exposure time never rises as lux rises and meets the anchor's
\* exposure time at each anchor lux; at the two extreme anchors and outside
\* the table's domain it is the extreme anchor's exposure time exactly.
C29_Interp ==
    (calc # NoCalc /\ calc.done)
       => /\ calc.lux1 <= calc.lux2 => calc.et1 + 2 >= calc.et2
          /\ \A a \in AnchorAt(calc.lux1) :
                /\ Abs(calc.et1 - LogScale * a.t) <= 1
                /\ a \in Extremes => calc.et1 = LogScale * a.t
          /\ calc.lux1 >= 2 * sorted(calc.table)[1].l
                => calc.et1 = LogScale * sorted(calc.table)[1].t
          /\ calc.lux1 <= 2 * sorted(calc.table)[Len(calc.table)].l
                => calc.et1 = LogScale * sorted(calc.table)[Len(calc.table)].t

\* an interior anchor has been evaluated together with a greater lux inside
\* the table
C29_Witness ==
    /\ calc # NoCalc /\ calc.done
    /\ AnchorAt(calc.lux1) # {} /\ AnchorAt(calc.lux1) \cap Extremes = {}
    /\ calc.lux1 < calc.lux2 /\ calc.lux2 < 2 * sorted(calc.table)[1].l
    /\ calc.et1 > calc.et2

\* C31: every shutter value written in normal mode is at most the
\* interval-derived ceiling (min_interval minus raw_delay minus the overhead)
\* of the live record read in that tick, also after the quantization and the
\* minimum-shutter clamp.
C31_BelowCeiling ==
    (calc # NoCalc /\ calc.done /\ calc.write_s)
       => calc.prop_s <= MaxByInterval(calc.min_interval, calc.raw_delay, calc.overhead)

\* the rules whose inclusive range holds the lux average
Matching == {i \in 1..Len(Mappings) :
                Mappings[i].min_lux <= lux /\ lux <= Mappings[i].max_lux}

\* C32: preset resolution takes the first rule in list order whose range
\* [min_lux, max_lux] contains the lux average, also when rules overlap; when
\* no rule matches the tick changes neither the config record, the active
\* preset nor the last-switch time and issues no supervisor command.
C32_FirstMatch ==
    [][(TickStep /\ luxctl.enabled /\ luxctl.force_preset = "" /\ lux # NoLux)
          => /\ Matching = {}
                   => /\ pcP' \in {"sleep", "exited"}
                      /\ UNCHANGED <<cfgC, tmpC, current_preset, last_switch,
                                     pCmds, pidfile, procs>>
             /\ pcP' = "open"
                   => /\ Matching # {}
                      /\ \A i \in Matching :
                            (\A j \in Matching : i <= j) => pPreset' = Mappings[i].preset
             /\ (LuxChange /\ CooldownOver(now, last_switch, luxctl.cooldown_s)
                   /\ LuxTarget \in presetsOk)
                   => pcP' = "open"]_vars

\* a tick has resolved a lux that two rules contain to the first rule's preset
C32_Witness ==
    /\ pcP = "open" /\ ~pForced
    /\ Cardinality(Matching) >= 2
    /\ pPreset = Mappings[1].preset

\* C33: applying a preset overlays the preset's fields onto the live config
\* record: every key of the live record that the preset file does not contain
\* is still present with its pre-apply value after the apply.
C33_Overlay ==
    [][(ApplyStep /\ cfgC.st = "full")
          => \A k \in Keys :
                PresetFile(pPreset)[k] = 0 => cfgC'.rec[k] = cfgC.rec[k]]_vars

\* an apply fails in this step: the preset file is missing or invalid, or
\* save_json returns False
FailStep ==
    \/ pcP = "idle" /\ pPreset' # "" /\ pcP' \notin {"idle", "open"}
    \/ pcP = "rename" /\ pcP' \notin {"rename", "decide"}

\* C34: the active preset and the last-switch time change only in a tick whose
\* apply succeeded; a failed apply (preset file missing or invalid, save
\* failed) leaves the config record, the active preset and the last-switch
\* time unchanged and issues no supervisor command, and the next tick attempts
\* the switch again without waiting for a cooldown.
C34_FailedApply ==
    [][/\ (current_preset' # current_preset \/ last_switch' # last_switch)
             => pcP \in {"decide", "start"}
       /\ (pcP' # pcP /\ cfgC' # cfgC) => ApplyStep
       /\ FailStep
             => /\ UNCHANGED <<cfgC, current_preset, last_switch>>
                /\ pCmds = <<>> /\ pCmds' = <<>>
                /\ pcP' \in {"sleep", "exited"}
       /\ (TickStep /\ LuxChange /\ CooldownOver(now, last_switch, luxctl.cooldown_s))
             => pPreset' = LuxTarget]_vars

\* C35: with only the exposure controller and the color controller writing,
\* the config file always holds one complete record; a save of the exposure
\* controller puts in the shutter and gain it assigns and leaves every other
\* key as the file had it, a save of the color controller puts in its awb
\* gains and leaves every other key, and nothing else changes the file: so
\* after any interleaving the record holds the shutter and gain of the
\* exposure controller's last write and the awb gains of the color
\* controller's last write.
C35_NoUndo ==
    [][/\ cfgC'.st = "full"
       /\ (pcE = "rename" /\ pcE' = "sleep")
             => /\ RenameOk
                /\ \A k \in SetKeys(eUpd) : cfgC'.rec[k] = eUpd[k]
                /\ \A k \in Keys \ SetKeys(eUpd) : cfgC'.rec[k] = cfgC.rec[k]
                /\ SetKeys(eUpd) \subseteq {"shutter", "gain"}
       /\ (pcA = "rename" /\ pcA' = "sleep")
             => /\ RenameOk
                /\ \A k \in SetKeys(aUpd) : cfgC'.rec[k] = aUpd[k]
                /\ \A k \in Keys \ SetKeys(aUpd) : cfgC'.rec[k] = cfgC.rec[k]
                /\ SetKeys(aUpd) \subseteq {"awb_gain_r", "awb_gain_b"}
       /\ (pcE # "rename" /\ pcA # "rename") => cfgC' = cfgC]_vars

\* both controllers have written, and the exposure controller saves again
\* while the color controller waits for the lock
C35_Witness ==
    /\ cfgC.rec["shutter"] # InitCfgRec["shutter"]
    /\ cfgC.rec["awb_gain_r"] # InitCfgRec["awb_gain_r"]
    /\ pcE = "rename" /\ pcA = "lock"

\* C36: at most one capture process is alive at any time, whatever the
\* switcher's restarts and the supervisor's start, stop and status calls do,
\* also when a start comes before the process started last has written its
\* pid file and when the applied preset moves the pid file to another folder.
\* (counted here: the processes that have started their camera and written
\* their pid file)
C36_OneCapture == Cardinality({p \in Alive : procs[p].st = "running"}) <= 1

\* the live shutter and gain are at the target of compute_targets to within
\* the minimum write deltas
AtTarget ==
    /\ calc # NoCalc /\ calc.done
    /\ Abs(calc.shutter - calc.tgt_s) <= calc.min_write_delta_shutter_us
    /\ Abs(calc.gain - calc.tgt_g) <= calc.min_write_delta_gain

\* C37: with constant lux, auto-exposure off, no astro mode and no other
\* writer the live shutter and gain eventually reach the clamped and quantized
\* target to within the minimum write deltas and then stay there.
C37_Converges == <>[]AtTarget

\* the switcher's tick has ended with a restart whose start left no capture
\* process
DownAfterRestart ==
    /\ pcP = "sleep"
    /\ \E i \in 1..Len(pCmds) : pCmds[i] = "start"
    /\ Alive = {}

\* C38: when the start of a restart fails or the capture process is not
\* running afterwards, the switcher issues another start at a later tick
\* while the same preset stays selected (or the selection changes): the
\* capture process does not stay down until the next preset change.
C38_StartsAgain ==
    DownAfterRestart
       ~> (pcP = "start" \/ Alive # {} \/ choose_preset(lux, Mappings) # current_preset)

\* C39: with write_only_if_ae_off set the exposure controller never changes
\* shutter or gain in the config record while the record on disk has
\* ae_enable true, in astro mode as in normal mode, also when ae_enable was
\* switched on between the tick's read and its locked write.
C39_NeverWhileAe ==
    [][(pcE = "rename" /\ ctlE.ae_only /\ cfgC.st = "full" /\ cfgC.rec["ae_enable"] = 2)
          => /\ cfgC'.rec["shutter"] = cfgC.rec["shutter"]
             /\ cfgC'.rec["gain"] = cfgC.rec["gain"]]_vars

====
